---- MODULE Spec2Model ----
(***************************************************************************)
(* py-lz4framed: the Python binding of the LZ4 frame codec                 *)
(* (src/lz4framed/py-lz4framed.c).                                         *)
(*                                                                         *)
(* Two specifications share the definitions of this module:                *)
(*   Spec    one caller driving every API function on byte contents       *)
(*           (frames are sequences of cells, buffers are PyBytes models). *)
(*   SpecMT  several threads, the GIL and the per-context locks, on       *)
(*           buffer lengths only.                                          *)
(* The LZ4F_* functions are the external codec; their model follows the   *)
(* frame protocol described by the specification document.                *)
(***************************************************************************)
EXTENDS Integers, Sequences, FiniteSets, TLC

(***************************************************************************)
(* Constants of the program                                                *)
(***************************************************************************)
LZ4F_default == 0
LZ4F_max64KB == 4
LZ4F_max256KB == 5
LZ4F_max1MB == 6
LZ4F_max4MB == 7
LZ4F_blockLinked == 0
LZ4F_blockIndependent == 1
LZ4_COMPRESSION_MIN == 0
LZ4_COMPRESSION_MAX == 12
NOGIL_COMPRESS_INPUT_SIZE_THRESHOLD == 8 * 1024
NOGIL_DECOMPRESS_INPUT_SIZE_THRESHOLD == 8 * 1024
NOGIL_DECOMPRESS_OUTPUT_SIZE_THRESHOLD == 8 * 1024

\* Header bytes reserved by compress_begin (one cell per header field).
LZ4F_HEADER_SIZE_MAX == 5

OK == "OK"
NULL == [len |-> -1, data |-> <<>>]

Min(x, y) == IF x <= y THEN x ELSE y

\* #define MAX(x, y) (x) >= (y) ? (x) : (y)
MAX(x, y) == IF x >= y THEN x ELSE y

\* F applied to the value of v, v being worked out once.
Strict(v, F(_)) == CHOOSE r \in {F(x) : x \in {v}} : TRUE

Bool(i) == IF i # 0 THEN 1 ELSE 0

(***************************************************************************)
(* Preferences                                                             *)
(***************************************************************************)
prefs_defaults ==
    [contentSize |-> 0, blockMode |-> LZ4F_blockLinked, blockSizeID |-> LZ4F_default,
     blockChecksumFlag |-> 0, contentChecksumFlag |-> 0,
     compressionLevel |-> 0, autoFlush |-> 0]

_valid_lz4f_block_size_id(id) ==
    id \in {LZ4F_default, LZ4F_max64KB, LZ4F_max256KB, LZ4F_max1MB, LZ4F_max4MB}

blockSizes == <<64 * 1024, 256 * 1024, 1024 * 1024, 4 * 1024 * 1024>>

\* A variant of block_size_index that takes the default for the next class.
block_size_index_defaultNext(id) == (IF id = LZ4F_default THEN LZ4F_max256KB ELSE id) - 4

\* The table index the function computes for a valid id.
block_size_index(id) == (IF id = LZ4F_default THEN LZ4F_max64KB ELSE id) - 4

_lz4f_block_size_from_id(id) ==
    IF ~_valid_lz4f_block_size_id(id) THEN 0
    ELSE blockSizes[block_size_index(id) + 1]

(***************************************************************************)
(* PyBytes objects: a length and the cells written so far from offset 0;   *)
(* the cells beyond data are uninitialised.                                *)
(***************************************************************************)
JunkByte == -1
Cell(t, v) == [t |-> t, v |-> v]
JunkCell == Cell("junk", 0)

PyBytes_FromStringAndSize(n) == [len |-> n, data |-> <<>>]

_PyBytes_Resize(o, n) == [len |-> n, data |-> SubSeq(o.data, 1, Min(n, Len(o.data)))]

\* memcpy of w into o at offset pos (0-based); a gap is left uninitialised.
WriteAt(o, pos, w, junk) ==
    LET d == o.data
        pre == IF pos <= Len(d) THEN SubSeq(d, 1, pos)
               ELSE d \o [i \in 1..(pos - Len(d)) |-> junk]
        post == SubSeq(d, pos + Len(w) + 1, Len(d))
    IN  [o EXCEPT !.data = pre \o w \o post]

\* The bytes object as its reader sees it: exactly len cells.
Content(o, junk) == o.data \o [i \in 1..(o.len - Len(o.data)) |-> junk]

RECURSIVE Hash(_, _)
Hash(s, h) == IF s = <<>> THEN h ELSE Hash(Tail(s), (3 * h + Head(s) + 1) % 7)

(***************************************************************************)
(* The external codec, compression side                                    *)
(***************************************************************************)
FlgBits(p) ==
    p.blockMode + 2 * p.blockChecksumFlag + 4 * p.contentChecksumFlag
    + 8 * (IF p.contentSize # 0 THEN 1 ELSE 0)

HeaderSum(flg, bd, csz) == (flg + 3 * bd + 5 * csz + 1) % 7

LZ4F_header(p) ==
    <<Cell("magic", 0), Cell("flg", FlgBits(p)), Cell("bd", p.blockSizeID)>>
    \o (IF p.contentSize # 0 THEN <<Cell("csz", p.contentSize)>> ELSE <<>>)
    \o <<Cell("hc", HeaderSum(FlgBits(p), p.blockSizeID, p.contentSize))>>

\* The number of leading cells of s that equal its first one.
RunLength(s) ==
    CHOOSE n \in 1..Len(s) :
        /\ \A i \in 1..n : s[i] = s[1]
        /\ (n = Len(s) \/ s[n + 1] # s[1])

\* Run-length coding: one "dat" cell (2 * length + value) per run.
RECURSIVE Runs(_)
Runs(s) ==
    IF s = <<>> THEN <<>>
    ELSE LET n == RunLength(s) IN
         <<Cell("dat", 2 * n + s[1])>> \o Runs(SubSeq(s, n + 1, Len(s)))

\* Each byte as its difference (mod 2) to the byte before it, h before the first.
Delta(p, h) == [i \in 1..Len(p) |-> (p[i] + (IF i = 1 THEN h ELSE p[i - 1])) % 2]

\* Payload p compressed against the history byte h.
EncodePayload(p, h) == Runs(Delta(p, h))

LZ4F_block(p, prefs, h) ==
    <<Cell("bh", Len(EncodePayload(p, h)))>> \o EncodePayload(p, h)
    \o (IF prefs.blockChecksumFlag = 1 THEN <<Cell("bc", Hash(p, 0))>> ELSE <<>>)

HistoryAfter(p, prefs, h) ==
    IF prefs.blockMode = LZ4F_blockLinked /\ p # <<>> THEN p[Len(p)]
    ELSE IF prefs.blockMode = LZ4F_blockLinked THEN h ELSE 0

\* Full blocks of data, then (when flush) the partial block; otherwise the
\* remainder stays buffered.
RECURSIVE LZ4F_emit(_, _, _, _)
LZ4F_emit(data, prefs, h, flush) ==
    LET bs == _lz4f_block_size_from_id(prefs.blockSizeID) IN
    IF Len(data) >= bs
    THEN LET p == SubSeq(data, 1, bs)
             r == LZ4F_emit(SubSeq(data, bs + 1, Len(data)), prefs,
                            HistoryAfter(p, prefs, h), flush)
         IN  [r EXCEPT !.cells = LZ4F_block(p, prefs, h) \o r.cells]
    ELSE IF flush /\ data # <<>>
    THEN [cells |-> LZ4F_block(data, prefs, h), rest |-> <<>>,
          h |-> HistoryAfter(data, prefs, h)]
    ELSE [cells |-> <<>>, rest |-> data, h |-> h]

LZ4F_compressBound_internal(srcSize, prefs, alreadyBuffered) ==
    LET flush == prefs.autoFlush = 1 \/ srcSize = 0
        blockSize == _lz4f_block_size_from_id(prefs.blockSizeID)
        bufferedSize == Min(alreadyBuffered, blockSize - 1)
        maxSrcSize == srcSize + bufferedSize
        nbFullBlocks == maxSrcSize \div blockSize
        partialBlockSize == maxSrcSize % blockSize
        lastBlockSize == IF flush THEN partialBlockSize ELSE 0
        nbBlocks == nbFullBlocks + (IF lastBlockSize > 0 THEN 1 ELSE 0)
        frameEnd == 1 + prefs.contentChecksumFlag
    IN  (1 + prefs.blockChecksumFlag) * nbBlocks + blockSize * nbFullBlocks
        + lastBlockSize + frameEnd

\* The public bound assumes a full internal buffer.
LZ4F_compressBound(srcSize, prefs) ==
    LZ4F_compressBound_internal(srcSize, prefs,
                                _lz4f_block_size_from_id(prefs.blockSizeID))

LZ4F_compressFrameBound(srcSize, prefs) ==
    LZ4F_HEADER_SIZE_MAX
    + LZ4F_compressBound_internal(srcSize, [prefs EXCEPT !.autoFlush = 1], 0)

\* A native compression context after LZ4F_createCompressionContext.
LZ4F_cctx_new ==
    [cStage |-> 0, prefs |-> prefs_defaults, tmpIn |-> <<>>, h |-> 0,
     xxh |-> 0, total |-> 0]

NativeErr(c, e) == [err |-> e, cells |-> <<>>, c |-> c]

\* A variant of LZ4F_compressBegin that starts a frame in any stage.
LZ4F_compressBegin_anyStage(c, dstCapacity, prefs) ==
    IF dstCapacity < LZ4F_HEADER_SIZE_MAX THEN NativeErr(c, "ERROR_dstMaxSize_tooSmall")
    ELSE [err |-> OK, cells |-> LZ4F_header(prefs),
          c |-> [cStage |-> 1, prefs |-> prefs, tmpIn |-> <<>>, h |-> 0,
                 xxh |-> 0, total |-> 0]]

LZ4F_compressBegin(c, dstCapacity, prefs) ==
    IF c.cStage # 0 THEN NativeErr(c, "ERROR_GENERIC")
    ELSE IF dstCapacity < LZ4F_HEADER_SIZE_MAX THEN NativeErr(c, "ERROR_dstMaxSize_tooSmall")
    ELSE [err |-> OK, cells |-> LZ4F_header(prefs),
          c |-> [cStage |-> 1, prefs |-> prefs, tmpIn |-> <<>>, h |-> 0,
                 xxh |-> 0, total |-> 0]]

LZ4F_compressUpdate(c, dstCapacity, src) ==
    IF c.cStage # 1 THEN NativeErr(c, "ERROR_GENERIC")
    ELSE IF dstCapacity < LZ4F_compressBound_internal(Len(src), c.prefs, Len(c.tmpIn))
    THEN NativeErr(c, "ERROR_dstMaxSize_tooSmall")
    ELSE LET e == LZ4F_emit(c.tmpIn \o src, c.prefs, c.h, c.prefs.autoFlush = 1)
         IN  [err |-> OK, cells |-> e.cells,
              c |-> [c EXCEPT !.tmpIn = e.rest, !.h = e.h,
                              !.xxh = Hash(src, c.xxh),
                              !.total = c.total + Len(src)]]

\* A variant of LZ4F_compressEnd that leaves the frame open.
LZ4F_compressEnd_staysOpen(c, dstCapacity) ==
    IF c.cStage # 1 THEN NativeErr(c, "ERROR_GENERIC")
    ELSE [err |-> OK, cells |-> <<Cell("bh", 0)>>, c |-> [c EXCEPT !.tmpIn = <<>>]]

LZ4F_compressEnd(c, dstCapacity) ==
    IF c.cStage # 1 THEN NativeErr(c, "ERROR_GENERIC")
    ELSE IF dstCapacity < LZ4F_compressBound_internal(0, c.prefs, Len(c.tmpIn))
    THEN NativeErr(c, "ERROR_dstMaxSize_tooSmall")
    ELSE LET e == LZ4F_emit(c.tmpIn, c.prefs, c.h, TRUE)
             tail == <<Cell("bh", 0)>>
                     \o (IF c.prefs.contentChecksumFlag = 1
                         THEN <<Cell("cc", c.xxh)>> ELSE <<>>)
             idle == [c EXCEPT !.cStage = 0, !.tmpIn = <<>>]
         IN  IF c.prefs.contentSize # 0 /\ c.prefs.contentSize # c.total
             THEN NativeErr(idle, "ERROR_frameSize_wrong")
             ELSE [err |-> OK, cells |-> e.cells \o tail, c |-> idle]

\* One whole frame through a temporary context, flushing every block.
LZ4F_compressFrame(dstCapacity, src, prefs) ==
    LET p == [prefs EXCEPT !.autoFlush = 1,
                           !.contentSize = IF @ # 0 THEN Len(src) ELSE 0]
    IN  IF dstCapacity < LZ4F_compressFrameBound(Len(src), p)
        THEN NativeErr(LZ4F_cctx_new, "ERROR_dstMaxSize_tooSmall")
        ELSE LET b == LZ4F_compressBegin(LZ4F_cctx_new, dstCapacity, p)
                 u == LZ4F_compressUpdate(b.c, dstCapacity, src)
                 e == LZ4F_compressEnd(u.c, dstCapacity)
             IN  IF u.err # OK THEN u
                 ELSE IF e.err # OK THEN e
                 ELSE [err |-> OK, cells |-> b.cells \o u.cells \o e.cells, c |-> e.c]

(***************************************************************************)
(* The external codec, decompression side                                  *)
(***************************************************************************)
frameInfo_none ==
    [contentSize |-> 0, blockSizeID |-> LZ4F_default, blockMode |-> LZ4F_blockLinked,
     contentChecksumFlag |-> 0, blockChecksumFlag |-> 0]

\* A native decompression context after LZ4F_createDecompressionContext.
LZ4F_dctx_new ==
    [dStage |-> "hdr", hdr |-> <<>>, info |-> frameInfo_none, need |-> 0,
     blk |-> <<>>, out |-> <<>>, h |-> 0, xxh |-> 0, total |-> 0, fin |-> FALSE]

RECURSIVE Expand(_)
Expand(e) ==
    IF e = <<>> THEN <<>>
    ELSE [i \in 1..(e[1].v \div 2) |-> e[1].v % 2] \o Expand(Tail(e))

RECURSIVE Undelta(_, _)
Undelta(dl, h) ==
    IF dl = <<>> THEN <<>>
    ELSE LET b == (dl[1] + 2 - h) % 2 IN <<b>> \o Undelta(Tail(dl), b)

DecodePayload(e, h) == Undelta(Expand(e), h)

\* Number of header cells, known once the flag cell is in.
HeaderSize(flg) == 4 + (IF (flg \div 8) % 2 = 1 THEN 1 ELSE 0)

DErr(d, e) == [err |-> e, d |-> d]

\* The block whose payload cells are all in d.blk becomes pending output.
BlockDecoded(d) ==
    LET p == DecodePayload(d.blk, d.h) IN
    [d EXCEPT !.dStage = "blk", !.blk = <<>>, !.out = p,
              !.h = HistoryAfter(p, d.info, d.h),
              !.xxh = Hash(p, d.xxh), !.total = d.total + Len(p)]

FrameFinished(d) ==
    IF d.info.contentSize # 0 /\ d.info.contentSize # d.total
    THEN DErr(d, "ERROR_frameSize_wrong")
    ELSE DErr([d EXCEPT !.fin = TRUE], OK)

\* The decoder takes one input cell.
LZ4F_decodeCell(d, c) ==
    CASE d.dStage = "hdr" ->
            LET n == Len(d.hdr) + 1
                hd == Append(d.hdr, c)
            IN  IF n = 1 THEN
                    IF c.t = "magic" THEN DErr([d EXCEPT !.hdr = hd], OK)
                    ELSE DErr(d, "ERROR_frameType_unknown")
                ELSE IF n = 2 THEN
                    IF c.t = "flg" THEN DErr([d EXCEPT !.hdr = hd], OK)
                    ELSE DErr(d, "ERROR_reservedFlag_set")
                ELSE IF n = 3 THEN
                    IF c.t = "bd" /\ _valid_lz4f_block_size_id(c.v)
                    THEN DErr([d EXCEPT !.hdr = hd], OK)
                    ELSE DErr(d, "ERROR_maxBlockSize_invalid")
                ELSE IF n < HeaderSize(hd[2].v) THEN
                    IF c.t = "csz" THEN DErr([d EXCEPT !.hdr = hd], OK)
                    ELSE DErr(d, "ERROR_frameHeader_incomplete")
                ELSE LET flg == hd[2].v
                         csz == IF n = 5 THEN hd[4].v ELSE 0
                     IN  IF c.t = "hc" /\ c.v = HeaderSum(flg, hd[3].v, csz)
                         THEN DErr([d EXCEPT !.dStage = "blk", !.hdr = <<>>,
                                      !.info = [contentSize |-> csz,
                                                blockSizeID |-> hd[3].v,
                                                blockMode |-> flg % 2,
                                                blockChecksumFlag |-> (flg \div 2) % 2,
                                                contentChecksumFlag |-> (flg \div 4) % 2],
                                      !.h = 0, !.xxh = 0, !.total = 0], OK)
                         ELSE DErr(d, "ERROR_headerChecksum_invalid")
      [] d.dStage = "blk" ->
            IF c.t # "bh" THEN DErr(d, "ERROR_GENERIC")
            ELSE IF c.v = 0 THEN
                IF d.info.contentChecksumFlag = 1
                THEN DErr([d EXCEPT !.dStage = "cc"], OK)
                ELSE FrameFinished(d)
            ELSE IF c.v > _lz4f_block_size_from_id(d.info.blockSizeID)
            THEN DErr(d, "ERROR_maxBlockSize_invalid")
            ELSE DErr([d EXCEPT !.dStage = "dat", !.need = c.v, !.blk = <<>>], OK)
      [] d.dStage = "dat" ->
            IF c.t # "dat" \/ c.v < 2 THEN DErr(d, "ERROR_decompressionFailed")
            ELSE LET d1 == [d EXCEPT !.blk = Append(@, c), !.need = @ - 1] IN
                 IF d1.need > 0 THEN DErr(d1, OK)
                 ELSE IF d.info.blockChecksumFlag = 1
                 THEN DErr([d1 EXCEPT !.dStage = "bc"], OK)
                 ELSE DErr(BlockDecoded(d1), OK)
      [] d.dStage = "bc" ->
            IF c.t = "bc" /\ c.v = Hash(DecodePayload(d.blk, d.h), 0)
            THEN DErr(BlockDecoded(d), OK)
            ELSE DErr(d, "ERROR_blockChecksum_invalid")
      [] OTHER ->
            IF c.t = "cc" /\ c.v = d.xxh THEN FrameFinished(d)
            ELSE DErr(d, "ERROR_contentChecksum_invalid")

\* How many input cells the decoder would like next (never 0 inside a frame).
LZ4F_hint(d) ==
    CASE d.dStage = "hdr" ->
            IF Len(d.hdr) >= 2 THEN HeaderSize(d.hdr[2].v) - Len(d.hdr)
            ELSE 4 - Len(d.hdr)
      [] d.dStage = "dat" -> d.need + d.info.blockChecksumFlag + 1
      [] d.dStage = "bc" -> 2
      [] OTHER -> 1

\* A variant of LZ4F_frameEnd that keeps the finished frame's header.
LZ4F_frameEnd_keepInfo(d) == [LZ4F_dctx_new EXCEPT !.info = d.info, !.dStage = "blk"]

\* The context after the last cell of a frame: ready for a new frame.
LZ4F_frameEnd(d) == LZ4F_dctx_new

\* LZ4F_decompress: pending output is delivered first, as far as the
\* destination has room; input is taken while no output is pending; a
\* finished frame resets the context and reports hint 0.
RECURSIVE LZ4F_decompress_run(_, _, _, _, _)
LZ4F_decompress_run(d0, dstCapacity, src, read, written0) ==
    Strict(<<d0, written0>>, LAMBDA x :
        LET d == x[1]
            written == x[2]
        IN
        IF d.out # <<>> THEN
            IF Len(written) = dstCapacity
            THEN [err |-> OK, d |-> d, read |-> read, written |-> written,
                  hint |-> LZ4F_hint(d)]
            ELSE LET k == Min(dstCapacity - Len(written), Len(d.out)) IN
                 LZ4F_decompress_run([d EXCEPT !.out = SubSeq(@, k + 1, Len(@))],
                                     dstCapacity, src, read,
                                     written \o SubSeq(d.out, 1, k))
        ELSE IF d.fin
        THEN [err |-> OK, d |-> LZ4F_frameEnd(d), read |-> read, written |-> written,
              hint |-> 0]
        ELSE IF read = Len(src)
        THEN [err |-> OK, d |-> d, read |-> read, written |-> written,
              hint |-> LZ4F_hint(d)]
        ELSE Strict(LZ4F_decodeCell(d, src[read + 1]), LAMBDA s :
                 IF s.err # OK
                 THEN [err |-> s.err, d |-> s.d, read |-> read, written |-> written,
                       hint |-> 0]
                 ELSE LZ4F_decompress_run(s.d, dstCapacity, src, read + 1, written)))

LZ4F_decompress(d, dstCapacity, src) ==
    Strict(src, LAMBDA x : LZ4F_decompress_run(d, dstCapacity, x, 0, <<>>))

\* LZ4F_getFrameInfo: the header is taken from src on a context that has
\* seen nothing yet; a context already past the header answers from its
\* state and takes no input.
LZ4F_getFrameInfo(d, src) ==
    LET fail(e) == [err |-> e, d |-> d, read |-> 0, info |-> frameInfo_none, hint |-> 0] IN
    IF d.dStage # "hdr"
    THEN [err |-> OK, d |-> d, read |-> 0, info |-> d.info, hint |-> LZ4F_hint(d)]
    ELSE IF d.hdr # <<>> \/ Len(src) < 2 THEN fail("ERROR_frameHeader_incomplete")
    ELSE IF src[1].t # "magic" THEN fail("ERROR_frameType_unknown")
    ELSE IF src[2].t # "flg" THEN fail("ERROR_reservedFlag_set")
    ELSE IF Len(src) < HeaderSize(src[2].v) THEN fail("ERROR_frameHeader_incomplete")
    ELSE LET hs == HeaderSize(src[2].v) IN
         Strict(LZ4F_decompress(d, 0, SubSeq(src, 1, hs)), LAMBDA r :
             IF r.err # OK THEN fail(r.err)
             ELSE [err |-> OK, d |-> r.d, read |-> hs, info |-> r.d.info,
                   hint |-> LZ4F_hint(r.d)])

(***************************************************************************)
(* Results of the API functions                                            *)
(***************************************************************************)
E_NoData == "Lz4FramedNoDataError"
E_NotContig == "ValueError: input not contiguous"
E_BlockId == "ValueError: block_size_id invalid"
E_Level == "ValueError: level invalid"
E_BufSize == "ValueError: buffer_size invalid"
E_ChunkLen == "ValueError: chunk_len invalid"
E_Id == "ValueError: id invalid"
E_CtxInvalid == "ValueError: ctx invalid"
E_Incomplete == "ValueError: frame incomplete"
E_NoMem == "MemoryError"
E_System == "SystemError: Negative size passed to PyBytes_FromStringAndSize"
E_Warn == "RuntimeWarning: lz4frame contentSize mismatch"

\* The error kinds of the specification's taxonomy.
InvalidOption == {E_BlockId, E_Level, E_BufSize, E_ChunkLen, E_Id}
CodecErrors ==
    {"ERROR_GENERIC", "ERROR_dstMaxSize_tooSmall", "ERROR_frameSize_wrong",
     "ERROR_frameType_unknown", "ERROR_reservedFlag_set", "ERROR_maxBlockSize_invalid",
     "ERROR_frameHeader_incomplete", "ERROR_headerChecksum_invalid",
     "ERROR_decompressionFailed", "ERROR_blockChecksum_invalid",
     "ERROR_contentChecksum_invalid", "ERROR_allocation_failed"}

\* Calls into the codec that work on a codec handle or on data.
NativeCalls ==
    {"LZ4F_compressFrameBound", "LZ4F_compressFrame", "LZ4F_compressBound",
     "LZ4F_compressBegin", "LZ4F_compressUpdate", "LZ4F_compressEnd",
     "LZ4F_createDecompressionContext", "LZ4F_getFrameInfo", "LZ4F_decompress",
     "LZ4F_freeDecompressionContext"}

\* What a call returns: the exception raised (or OK), the bytes object, the
\* integer, the list of chunks, and the call's events in program order.
dict_none ==
    [input_hint |-> 0, length |-> 0, block_size_id |-> 0,
     block_mode_linked |-> FALSE, checksum |-> FALSE]

Ret(err, ret, ev) ==
    [err |-> err, ret |-> ret, num |-> 0, list |-> <<>>, dict |-> dict_none, ev |-> ev,
     output_len |-> 0]

Count(ev, e) == Cardinality({i \in 1..Len(ev) : ev[i] = e})
Natives(ev) == Cardinality({i \in 1..Len(ev) : ev[i] \in NativeCalls})

(***************************************************************************)
(* get_block_size                                                          *)
(***************************************************************************)
\* A variant of get_block_size_check that takes every id from 0 to 7.
get_block_size_check_range(block_id) ==
    IF block_id < LZ4F_default \/ block_id > LZ4F_max4MB THEN E_Id ELSE OK

get_block_size_check(block_id) ==
    IF ~_valid_lz4f_block_size_id(block_id) THEN E_Id ELSE OK

_lz4framed_get_block_size(a) ==
    LET chk == get_block_size_check(a.id) IN
    IF chk # OK THEN Ret(chk, NULL, <<>>)
    ELSE IF a.mem = 1 THEN Ret(E_NoMem, NULL, <<"alloc">>)
    ELSE [Ret(OK, NULL, <<"alloc">>) EXCEPT !.num = _lz4f_block_size_from_id(a.id)]

(***************************************************************************)
(* compress                                                                *)
(***************************************************************************)
\* A variant of compress_check that turns the maximum level down as well.
compress_check_levelStrict(a) ==
    IF ~a.contig THEN E_NotContig
    ELSE IF Len(a.b) <= 0 THEN E_NoData
    ELSE IF ~_valid_lz4f_block_size_id(a.block_size_id) THEN E_BlockId
    ELSE IF a.level >= LZ4_COMPRESSION_MAX THEN E_Level
    ELSE OK

compress_check(a) ==
    IF ~a.contig THEN E_NotContig
    ELSE IF Len(a.b) <= 0 THEN E_NoData
    ELSE IF ~_valid_lz4f_block_size_id(a.block_size_id) THEN E_BlockId
    ELSE IF a.level > LZ4_COMPRESSION_MAX THEN E_Level
    ELSE OK

\* A variant of compress_prefs that leaves the content size undeclared.
compress_prefs_noSize(a) ==
    [prefs_defaults EXCEPT
        !.blockMode = IF a.block_mode_linked # 0 THEN LZ4F_blockLinked
                      ELSE LZ4F_blockIndependent,
        !.blockSizeID = a.block_size_id,
        !.blockChecksumFlag = Bool(a.block_checksum),
        !.contentChecksumFlag = Bool(a.checksum),
        !.compressionLevel = a.level]

compress_prefs(a) ==
    [prefs_defaults EXCEPT
        !.contentSize = Len(a.b),
        !.blockMode = IF a.block_mode_linked # 0 THEN LZ4F_blockLinked
                      ELSE LZ4F_blockIndependent,
        !.blockSizeID = a.block_size_id,
        !.blockChecksumFlag = Bool(a.block_checksum),
        !.contentChecksumFlag = Bool(a.checksum),
        !.compressionLevel = a.level]

\* The length the output is cut to after LZ4F_compressFrame.
compress_resize_len(bound, written) == written

_lz4framed_compress(a) ==
    LET chk == compress_check(a)
        prefs == compress_prefs(a)
        output_len == LZ4F_compressFrameBound(Len(a.b), prefs)
        output == PyBytes_FromStringAndSize(output_len)
        r == LZ4F_compressFrame(output_len, a.b, prefs)
        ev1 == <<"view", "LZ4F_compressFrameBound", "alloc">>
        ev2 == Append(ev1, "LZ4F_compressFrame")
    IN  IF chk # OK THEN Ret(chk, NULL, <<"view", "release">>)
        ELSE IF a.mem = 1 THEN Ret(E_NoMem, NULL, Append(ev1, "release"))
        ELSE IF r.err # OK THEN Ret(r.err, NULL, ev2 \o <<"release", "decref">>)
        ELSE IF a.mem = 2 THEN Ret(E_NoMem, NULL, ev2 \o <<"resize", "release">>)
        ELSE Ret(OK,
                 _PyBytes_Resize(WriteAt(output, 0, r.cells, JunkCell),
                                 compress_resize_len(output_len, Len(r.cells))),
                 ev2 \o <<"resize", "release">>)

(***************************************************************************)
(* decompress                                                              *)
(***************************************************************************)
\* A variant of decompress_check that turns buffer_size 1 down as well.
decompress_check_hint1(a) ==
    IF ~a.contig THEN E_NotContig
    ELSE IF Len(a.b) <= 0 THEN E_NoData
    ELSE IF a.buffer_size <= 1 THEN E_BufSize
    ELSE OK

decompress_check(a) ==
    IF ~a.contig THEN E_NotContig
    ELSE IF Len(a.b) <= 0 THEN E_NoData
    ELSE IF a.buffer_size <= 0 THEN E_BufSize
    ELSE OK

\* A variant of decompress_initial_len that goes by buffer_size alone.
decompress_initial_len_hint(contentSize, buffer_size, input_remaining) ==
    MAX(buffer_size, input_remaining)

\* Initial size of the output buffer.
decompress_initial_len(contentSize, buffer_size, input_remaining) ==
    IF contentSize # 0 THEN contentSize ELSE MAX(buffer_size, input_remaining)

\* A variant of decompress_stableDst that always sets the option.
decompress_stableDst_always(contentSize) == 1

\* opt.stableDst: set when the frame declares its content size, so that the
\* decoder does not buffer its output.
decompress_stableDst(contentSize) == IF contentSize # 0 THEN 1 ELSE 0

\* A variant of decompress_final_len that leaves the buffer at its capacity.
decompress_final_len_whole(output_len, output_remaining) == output_len

\* The length the result is cut to when the decoder reports hint 0.
decompress_final_len(output_len, output_remaining) == output_len - output_remaining

\* A variant of decompress_grown_pos that starts over at the buffer's start.
decompress_grown_pos_rewind(output_len, output_remaining) == 0

\* The write offset after the buffer has been doubled.
decompress_grown_pos(output_len, output_remaining) == output_len - output_remaining

\* PyErr_WarnEx returns nonzero when the warning is raised as an exception.
PyErr_WarnEx(a) == IF a.warn_err THEN -1 ELSE 0

\* A variant of decompress_mismatch that gives up on every mismatch.
decompress_mismatch_fatal(a, contentSize) == contentSize # 0

\* The frame declares its size and the buffer is to grow: does the call bail?
decompress_mismatch(a, contentSize) == contentSize # 0 /\ PyErr_WarnEx(a) # 0

\* "destination too small": the buffer is doubled and what was written is kept.
decompress_grow(a, contentSize, s) ==
    LET warned == contentSize # 0
        ev1 == IF warned THEN Append(s.ev, "warn") ELSE s.ev
        rem == s.output_remaining + s.output_len
        len2 == s.output_len * 2
    IN  IF decompress_mismatch(a, contentSize)
        THEN [s EXCEPT !.st = "bail", !.err = E_Warn, !.ev = ev1]
        ELSE IF s.allocs + 1 = a.mem
        THEN [s EXCEPT !.st = "bail", !.err = E_NoMem, !.ev = Append(ev1, "resize"),
                       !.output = NULL]
        ELSE [s EXCEPT !.output_remaining = rem, !.output_written = rem,
                       !.output_len = len2,
                       !.output = _PyBytes_Resize(s.output, len2),
                       !.output_pos = decompress_grown_pos(len2, rem),
                       !.allocs = @ + 1, !.grows = @ + 1,
                       !.ev = Append(ev1, "resize")]

\* The decoder call of one pass: at most output_written bytes out, the
\* input_read bytes at input_pos in.
decompress_native(a, s) ==
    LZ4F_decompress(s.ctx, s.output_written,
                    SubSeq(a.b, s.input_pos + 1, s.input_pos + s.input_read))

\* A variant of decompress_exhausted that returns what has been written.
decompress_exhausted_partial(s) ==
    [s EXCEPT !.st = "break",
              !.output_len = decompress_final_len(s.output_len, s.output_remaining)]

\* "insufficient data": nothing is left to read and the decoder wants more.
decompress_exhausted(s) == [s EXCEPT !.st = "bail", !.err = E_Incomplete]

\* One pass of the while (1) loop.
decompress_step(a, contentSize, s) ==
    Strict(decompress_native(a, s),
           LAMBDA r :
    LET ev1 == Append(s.ev, "LZ4F_decompress")
        w == Len(r.written)
        s1 == [s EXCEPT !.ctx = r.d, !.ev = ev1,
                        !.output = WriteAt(s.output, s.output_pos, r.written, JunkByte),
                        !.output_pos = @ + w,
                        !.output_written = s.output_remaining - w,
                        !.output_remaining = @ - w]
        s2 == [s1 EXCEPT !.input_pos = @ + r.read,
                         !.input_read = s1.input_remaining - r.read,
                         !.input_remaining = @ - r.read]
    IN  IF r.err # OK THEN [s EXCEPT !.st = "bail", !.err = r.err, !.ev = ev1, !.ctx = r.d]
        ELSE IF r.hint = 0
        THEN [s1 EXCEPT !.st = "break",
                        !.output_len = decompress_final_len(s1.output_len, s1.output_remaining)]
        ELSE IF s2.input_remaining # 0 THEN decompress_grow(a, contentSize, s2)
        ELSE decompress_exhausted(s2))

RECURSIVE decompress_loop(_, _, _)
decompress_loop(a, contentSize, s0) ==
    Strict(s0, LAMBDA s :
        IF s.st # "loop" THEN s
        ELSE decompress_loop(a, contentSize, decompress_step(a, contentSize, s)))

\* bail: the view is released, the output dropped, the context freed.
decompress_bail(err, ev, ctxMade) ==
    Ret(err, NULL,
        ev \o <<"release", "decref">>
           \o <<IF ctxMade THEN "LZ4F_freeDecompressionContext" ELSE "free_null">>)

\* The locals when the loop is entered, fi being what LZ4F_getFrameInfo
\* returned.
decompress_start(a, fi) ==
    LET input_remaining == Len(a.b) - fi.read
        output_len == decompress_initial_len(fi.info.contentSize, a.buffer_size,
                                             input_remaining)
    IN  [st |-> "loop", err |-> OK, ctx |-> fi.d,
         ev |-> <<"view", "LZ4F_createDecompressionContext", "LZ4F_getFrameInfo", "alloc">>,
         output |-> PyBytes_FromStringAndSize(output_len),
         output_pos |-> 0, output_len |-> output_len,
         output_remaining |-> output_len, output_written |-> output_len,
         input_pos |-> fi.read, input_remaining |-> input_remaining,
         input_read |-> input_remaining,
         stableDst |-> decompress_stableDst(fi.info.contentSize),
         allocs |-> 2, grows |-> 0]

\* What is returned once the loop has been left with locals s.
decompress_finish(a, s) ==
    IF s.st = "bail" THEN decompress_bail(s.err, s.ev, TRUE)
    ELSE IF s.allocs + 1 = a.mem
    THEN decompress_bail(E_NoMem, Append(s.ev, "resize"), TRUE)
    ELSE [Ret(OK, _PyBytes_Resize(s.output, s.output_len),
              s.ev \o <<"resize", "release", "LZ4F_freeDecompressionContext">>)
          EXCEPT !.num = s.grows]

\* The call from the output allocation on.
decompress_output(a, fi) ==
    IF a.mem = 2 THEN decompress_bail(E_NoMem, decompress_start(a, fi).ev, TRUE)
    ELSE Strict(decompress_loop(a, fi.info.contentSize, decompress_start(a, fi)),
                LAMBDA s : decompress_finish(a, s))

_lz4framed_decompress(a) ==
    LET chk == decompress_check(a)
        ev1 == <<"view", "LZ4F_createDecompressionContext">>
        ev2 == Append(ev1, "LZ4F_getFrameInfo")
    IN  IF chk # OK THEN Ret(chk, NULL, <<"view", "release", "free_null">>)
        ELSE IF a.mem = 1 THEN decompress_bail("ERROR_allocation_failed", ev1, FALSE)
        ELSE Strict(LZ4F_getFrameInfo(LZ4F_dctx_new, a.b), LAMBDA fi :
                 IF fi.err # OK THEN decompress_bail(fi.err, ev2, TRUE)
                 ELSE decompress_output(a, fi))

(***************************************************************************)
(* Context objects: the native handle, the stored preferences (compression *)
(* only) and the lock (0 free, 1 held).                                    *)
(***************************************************************************)
cctx_new == [ctx |-> LZ4F_cctx_new, prefs |-> prefs_defaults, lock |-> 0]
dctx_new == [ctx |-> LZ4F_dctx_new, lock |-> 0]

\* ENTER_LZ4FRAMED / EXIT_LZ4FRAMED as seen in a call's events.
LockAfter(lock, ev) == lock + Count(ev, "lock") - Count(ev, "unlock")

\* A call's outcome on a context: what it returns and the context afterwards.
Out(c, ctx, r) == [r |-> r, c |-> [c EXCEPT !.ctx = ctx, !.lock = LockAfter(c.lock, r.ev)]]

(***************************************************************************)
(* compress_begin                                                          *)
(***************************************************************************)
compress_begin_check(a) ==
    IF a.ctx # "cctx" THEN E_CtxInvalid
    ELSE IF ~_valid_lz4f_block_size_id(a.block_size_id) THEN E_BlockId
    ELSE IF a.level > LZ4_COMPRESSION_MAX THEN E_Level
    ELSE OK

\* A variant of compress_begin_prefs that leaves autoFlush as it was.
compress_begin_prefs_keepFlush(prefs, a) ==
    [prefs EXCEPT
        !.blockMode = IF a.block_mode_linked # 0 THEN LZ4F_blockLinked
                      ELSE LZ4F_blockIndependent,
        !.blockSizeID = a.block_size_id,
        !.blockChecksumFlag = Bool(a.block_checksum),
        !.contentChecksumFlag = Bool(a.checksum),
        !.compressionLevel = a.level]

compress_begin_prefs(prefs, a) ==
    [prefs EXCEPT
        !.blockMode = IF a.block_mode_linked # 0 THEN LZ4F_blockLinked
                      ELSE LZ4F_blockIndependent,
        !.blockSizeID = a.block_size_id,
        !.blockChecksumFlag = Bool(a.block_checksum),
        !.contentChecksumFlag = Bool(a.checksum),
        !.compressionLevel = a.level,
        !.autoFlush = Bool(a.autoflush)]

\* A variant of trimmed_output that trims one cell too many.
overtrimmed_output(cap, cells) ==
    _PyBytes_Resize(WriteAt(PyBytes_FromStringAndSize(cap), 0, cells, JunkCell),
                    IF cells = <<>> THEN 0 ELSE Len(cells) - 1)

\* A variant of trimmed_output that hands the whole buffer back.
untrimmed_output(cap, cells) ==
    WriteAt(PyBytes_FromStringAndSize(cap), 0, cells, JunkCell)

\* The bytes object handed back after the native call wrote `cells` into a
\* buffer of `cap` cells.
trimmed_output(cap, cells) ==
    _PyBytes_Resize(WriteAt(PyBytes_FromStringAndSize(cap), 0, cells, JunkCell), Len(cells))

_lz4framed_compress_begin(cc, a) ==
    LET chk == compress_begin_check(a)
        cc1 == [cc EXCEPT !.prefs = compress_begin_prefs(cc.prefs, a)]
        output_len == LZ4F_HEADER_SIZE_MAX
        r == LZ4F_compressBegin(cc.ctx, output_len, cc1.prefs)
        ev1 == <<"lock", "prefs_w", "alloc">>
        ev2 == Append(ev1, "LZ4F_compressBegin")
    IN  IF chk # OK THEN Out(cc, cc.ctx, Ret(chk, NULL, <<>>))
        ELSE IF a.mem = 1 THEN Out(cc1, cc.ctx, Ret(E_NoMem, NULL, Append(ev1, "unlock")))
        ELSE IF r.err # OK
        THEN Out(cc1, r.c, Ret(r.err, NULL, ev2 \o <<"unlock", "decref">>))
        ELSE IF a.mem = 2
        THEN Out(cc1, r.c, Ret(E_NoMem, NULL, ev2 \o <<"unlock", "resize">>))
        ELSE Out(cc1, r.c, Ret(OK, trimmed_output(output_len, r.cells),
                               ev2 \o <<"unlock", "resize">>))

(***************************************************************************)
(* compress_update                                                         *)
(***************************************************************************)
\* A variant of compress_update_check that lets empty data through.
compress_update_check_noEmpty(a) ==
    IF a.ctx # "cctx" THEN E_CtxInvalid
    ELSE IF ~a.contig THEN E_NotContig
    ELSE OK

compress_update_check(a) ==
    IF a.ctx # "cctx" THEN E_CtxInvalid
    ELSE IF ~a.contig THEN E_NotContig
    ELSE IF Len(a.b) <= 0 THEN E_NoData
    ELSE OK

\* A variant of compress_update_bound that goes by the default preferences.
compress_update_bound_defaults(cc, a) == LZ4F_compressBound(Len(a.b), prefs_defaults)

\* The prefs compress_update sizes its output with.
compress_update_bound(cc, a) == LZ4F_compressBound(Len(a.b), cc.prefs)

\* The outcome r of a call that asked for an output buffer of n bytes.
Sized(r, n) == [r EXCEPT !.output_len = n]

\* input_held stays 0 in this function: bail does not release the view.
_lz4framed_compress_update(cc, a) ==
    LET chk == compress_update_check(a)
        output_len == compress_update_bound(cc, a)
        r == LZ4F_compressUpdate(cc.ctx, output_len, a.b)
        ev1 == <<"view", "lock", "prefs_r", "LZ4F_compressBound", "alloc">>
        ev2 == Append(ev1, "LZ4F_compressUpdate")
    IN  IF chk # OK THEN Out(cc, cc.ctx, Ret(chk, NULL, <<"view">>))
        ELSE IF a.mem = 1
        THEN Out(cc, cc.ctx, Sized(Ret(E_NoMem, NULL, Append(ev1, "unlock")), output_len))
        ELSE IF r.err # OK
        THEN Out(cc, r.c, Sized(Ret(r.err, NULL, ev2 \o <<"unlock", "decref">>), output_len))
        ELSE IF a.mem = 2
        THEN Out(cc, r.c, Sized(Ret(E_NoMem, NULL, ev2 \o <<"unlock", "resize">>),
                                output_len))
        ELSE Out(cc, r.c, Sized(Ret(OK, trimmed_output(output_len, r.cells),
                                    ev2 \o <<"unlock", "resize", "release">>),
                                output_len))

(***************************************************************************)
(* compress_end                                                            *)
(***************************************************************************)
compress_end_check(a) == IF a.ctx # "cctx" THEN E_CtxInvalid ELSE OK

\* A variant of compress_end_bound that asks for no room at all.
compress_end_bound_none(cc) == 0

\* The size of the buffer compress_end allocates.
compress_end_bound(cc) == LZ4F_compressBound(0, cc.prefs)

_lz4framed_compress_end(cc, a) ==
    LET chk == compress_end_check(a)
        output_len == compress_end_bound(cc)
        r == LZ4F_compressEnd(cc.ctx, output_len)
        ev1 == <<"lock", "prefs_r", "LZ4F_compressBound", "alloc">>
        ev2 == Append(ev1, "LZ4F_compressEnd")
    IN  IF chk # OK THEN Out(cc, cc.ctx, Ret(chk, NULL, <<>>))
        ELSE IF a.mem = 1 THEN Out(cc, cc.ctx, Ret(E_NoMem, NULL, Append(ev1, "unlock")))
        ELSE IF r.err # OK
        THEN Out(cc, r.c, Ret(r.err, NULL, ev2 \o <<"unlock", "decref">>))
        ELSE IF a.mem = 2
        THEN Out(cc, r.c, Ret(E_NoMem, NULL, ev2 \o <<"unlock", "resize">>))
        ELSE Out(cc, r.c, Ret(OK, trimmed_output(output_len, r.cells),
                              ev2 \o <<"unlock", "resize">>))

(***************************************************************************)
(* get_frame_info                                                          *)
(***************************************************************************)
get_frame_info_check(a) == IF a.ctx # "dctx" THEN E_CtxInvalid ELSE OK

\* A variant of get_frame_info_dict that tests for the other block mode.
get_frame_info_dict_independent(input_hint, frameInfo) ==
    [input_hint |-> input_hint, length |-> frameInfo.contentSize,
     block_size_id |-> frameInfo.blockSizeID,
     block_mode_linked |-> frameInfo.blockMode = LZ4F_blockIndependent,
     checksum |-> frameInfo.contentChecksumFlag = 1]

\* The dict that is returned.
get_frame_info_dict(input_hint, frameInfo) ==
    [input_hint |-> input_hint, length |-> frameInfo.contentSize,
     block_size_id |-> frameInfo.blockSizeID,
     block_mode_linked |-> frameInfo.blockMode = LZ4F_blockLinked,
     checksum |-> frameInfo.contentChecksumFlag = 1]

_lz4framed_get_frame_info(dc, a) ==
    LET chk == get_frame_info_check(a)
        r == LZ4F_getFrameInfo(dc.ctx, <<>>)
        ev1 == <<"lock", "LZ4F_getFrameInfo">>
    IN  IF chk # OK THEN Out(dc, dc.ctx, Ret(chk, NULL, <<>>))
        ELSE IF r.err # OK THEN Out(dc, r.d, Ret(r.err, NULL, Append(ev1, "unlock")))
        ELSE IF a.mem = 1
        THEN Out(dc, r.d, Ret(E_NoMem, NULL, ev1 \o <<"alloc", "unlock">>))
        ELSE Out(dc, r.d,
                 [Ret(OK, NULL, ev1 \o <<"alloc", "unlock">>) EXCEPT
                    !.dict = get_frame_info_dict(r.hint, r.info)])

(***************************************************************************)
(* decompress_update                                                       *)
(***************************************************************************)
\* TLC's integers end at 2^31 - 1, so the C int that the "i" format stores
\* is modelled on 30 bits.
INT_MOD == 1073741824

\* size_t chunk_len = 65536, then (when the argument is given) an int is
\* stored through &chunk_len.  The int fills the whole size_t (ILP32), its
\* low half (LP64, little endian) or its high half (LP64, big endian; any
\* nonzero high half is shown as the largest size of the model).
chunk_len_parsed(a) ==
    IF ~a.has_chunk_len THEN 65536
    ELSE IF a.abi = "LP64BE"
    THEN (IF a.chunk_len % INT_MOD = 0 THEN 65536 ELSE INT_MOD - 1)
    ELSE a.chunk_len % INT_MOD

decompress_update_check(a, chunk_len) ==
    IF a.ctx # "dctx" THEN E_CtxInvalid
    ELSE IF ~a.contig THEN E_NotContig
    ELSE IF Len(a.b) <= 0 THEN E_NoData
    ELSE IF chunk_len <= 0 THEN E_ChunkLen
    ELSE OK

\* PyBytes_FromStringAndSize takes a Py_ssize_t: a size_t above its range
\* arrives negative.
chunk_alloc_error(a, chunk_len) ==
    IF a.abi = "ILP32" /\ chunk_len >= INT_MOD \div 2 THEN E_System ELSE OK

\* A variant of decompress_update_continue that goes by the input alone.
decompress_update_continue_input(input_remaining, input_size_hint) ==
    input_remaining # 0

\* Whether the loop goes on.
decompress_update_continue(input_remaining, input_size_hint) ==
    input_remaining # 0 /\ input_size_hint # 0

\* One pass of the while loop: a full chunk is appended and replaced, then
\* the decoder is called on what is left of the input and of the chunk.
decompress_update_step(a, chunk_len, s) ==
    LET full == s.chunk_remaining = 0
        s1 == IF ~full THEN s
              ELSE IF s.allocs + 1 = a.mem
              THEN [s EXCEPT !.st = "bail", !.err = E_NoMem, !.ev = Append(@, "append")]
              ELSE IF s.allocs + 2 = a.mem
              THEN [s EXCEPT !.st = "bail", !.err = E_NoMem,
                             !.list = Append(@, s.chunk),
                             !.ev = @ \o <<"append", "alloc_chunk">>]
              ELSE [s EXCEPT !.list = Append(@, s.chunk),
                             !.chunk = PyBytes_FromStringAndSize(chunk_len),
                             !.chunk_pos = 0, !.chunk_written = chunk_len,
                             !.chunk_remaining = chunk_len,
                             !.allocs = @ + 2,
                             !.ev = @ \o <<"append", "alloc_chunk">>]
        ev1 == Append(s1.ev, "LZ4F_decompress")
    IN  IF s1.st = "bail" THEN s1
        ELSE Strict(LZ4F_decompress(s1.ctx, s1.chunk_written,
                                    SubSeq(a.b, s1.input_pos + 1,
                                           s1.input_pos + s1.input_read)),
                    LAMBDA r :
             IF r.err # OK
             THEN [s1 EXCEPT !.st = "bail", !.err = r.err, !.ctx = r.d, !.ev = ev1]
             ELSE [s1 EXCEPT !.ctx = r.d, !.ev = ev1,
                             !.chunk = WriteAt(s1.chunk, s1.chunk_pos, r.written, JunkByte),
                             !.chunk_pos = @ + Len(r.written),
                             !.chunk_written = s1.chunk_remaining - Len(r.written),
                             !.chunk_remaining = @ - Len(r.written),
                             !.input_pos = @ + r.read,
                             !.input_read = s1.input_remaining - r.read,
                             !.input_remaining = @ - r.read,
                             !.input_size_hint = r.hint,
                             !.made = @ \o r.written])

RECURSIVE decompress_update_loop(_, _, _)
decompress_update_loop(a, chunk_len, s0) ==
    Strict(s0, LAMBDA s :
        IF s.st = "bail" \/ ~decompress_update_continue(s.input_remaining, s.input_size_hint)
        THEN s
        ELSE decompress_update_loop(a, chunk_len, decompress_update_step(a, chunk_len, s)))

\* A variant of final_chunk_kept that appends the last chunk even when empty.
final_chunk_kept_always(chunk_remaining, chunk_len) == chunk_remaining <= chunk_len

\* Whether the last chunk is appended.
final_chunk_kept(chunk_remaining, chunk_len) == chunk_remaining < chunk_len

\* The locals when the loop is entered; made collects what the decoder
\* produces during the call.
decompress_update_start(dc, a, chunk_len) ==
    [st |-> "loop", err |-> OK, ctx |-> dc.ctx, list |-> <<>>,
     chunk |-> PyBytes_FromStringAndSize(chunk_len),
     chunk_pos |-> 0, chunk_remaining |-> chunk_len,
     chunk_written |-> chunk_len,
     input_pos |-> 0, input_remaining |-> Len(a.b), input_read |-> Len(a.b),
     input_size_hint |-> 1, allocs |-> 2,
     ev |-> <<"view", "alloc", "alloc_chunk", "lock">>, made |-> <<>>]

\* input_held stays 0 in this function: bail does not release the view.
_lz4framed_decompress_update(dc, a) ==
    LET chunk_len == chunk_len_parsed(a)
        chk == decompress_update_check(a, chunk_len)
        ev1 == <<"view", "alloc">>
        ev2 == Append(ev1, "alloc_chunk")
        s0 == decompress_update_start(dc, a, chunk_len)
    IN  IF chk # OK THEN Out(dc, dc.ctx, Ret(chk, NULL, <<"view">>))
        ELSE IF a.mem = 1 THEN Out(dc, dc.ctx, Ret(E_NoMem, NULL, ev1))
        ELSE IF chunk_alloc_error(a, chunk_len) # OK
        THEN Out(dc, dc.ctx, Ret(chunk_alloc_error(a, chunk_len), NULL, ev2))
        ELSE IF a.mem = 2 THEN Out(dc, dc.ctx, Ret(E_NoMem, NULL, ev2))
        ELSE Strict(decompress_update_loop(a, chunk_len, s0), LAMBDA s :
            LET keep == final_chunk_kept(s.chunk_remaining, chunk_len)
                n == IF keep THEN 2 ELSE 0
                evk == IF keep THEN <<"resize", "append">> ELSE <<>>
                list == IF keep
                        THEN Append(s.list,
                                    _PyBytes_Resize(s.chunk, chunk_len - s.chunk_remaining))
                        ELSE s.list
            IN  IF s.st = "bail"
                THEN Out(dc, s.ctx, Ret(s.err, NULL, s.ev \o <<"unlock", "decref">>))
                ELSE IF a.mem > s.allocs /\ a.mem <= s.allocs + n + 2
                THEN Out(dc, s.ctx, Ret(E_NoMem, NULL, s.ev \o <<"unlock", "decref">>))
                ELSE Out(dc, s.ctx,
                         [Ret(OK, NULL, s.ev \o <<"unlock">> \o evk
                                        \o <<"alloc", "append", "release">>)
                          EXCEPT !.list = list, !.num = s.input_size_hint]))

(***************************************************************************)
(* Creation and destruction of the contexts, as the allocations and frees  *)
(* they make.  `fail` is the step of the creation that fails: 1 PyMem_New, *)
(* 2 PyThread_allocate_lock, 3 the native creation, 4 PyCapsule_New, and 0 *)
(* when none does.                                                         *)
(***************************************************************************)
E_Lock == "RuntimeError: Failed to allocate lock"

CreateOf(c) ==
    IF c = "cctx" THEN "LZ4F_createCompressionContext"
    ELSE "LZ4F_createDecompressionContext"

FreeOf(c) ==
    IF c = "cctx" THEN "LZ4F_freeCompressionContext"
    ELSE "LZ4F_freeDecompressionContext"

\* A variant of create_context_bail that leaves the lock alone.
create_context_bail_keepLock(c, mem, lock, ctx) ==
    IF ~mem THEN <<>>
    ELSE <<IF ctx THEN FreeOf(c) ELSE "free_null", "PyMem_Del">>

\* bail of the two creation functions: mem, lock and ctx tell whether the
\* context's memory, its lock and its native handle are non-NULL.
create_context_bail(c, mem, lock, ctx) ==
    IF ~mem THEN <<>>
    ELSE <<IF ctx THEN FreeOf(c) ELSE "free_null">>
            \o (IF lock THEN <<"PyThread_free_lock">> ELSE <<>>)
            \o <<"PyMem_Del">>

\* _lz4framed_create_compression_context (c = "cctx") and
\* _lz4framed_create_decompression_context (c = "dctx").
create_context(c, fail) ==
    LET ev1 == <<"PyMem_New">>
        ev2 == Append(ev1, "PyThread_allocate_lock")
        ev3 == Append(ev2, CreateOf(c))
        ev4 == Append(ev3, "PyCapsule_New")
    IN  IF fail = 1
        THEN [err |-> E_NoMem, capsule |-> FALSE,
              ev |-> ev1 \o create_context_bail(c, FALSE, FALSE, FALSE)]
        ELSE IF fail = 2
        THEN [err |-> E_Lock, capsule |-> FALSE,
              ev |-> ev2 \o create_context_bail(c, TRUE, FALSE, FALSE)]
        ELSE IF fail = 3
        THEN [err |-> "ERROR_allocation_failed", capsule |-> FALSE,
              ev |-> ev3 \o create_context_bail(c, TRUE, TRUE, FALSE)]
        ELSE IF fail = 4
        THEN [err |-> E_NoMem, capsule |-> FALSE,
              ev |-> ev4 \o create_context_bail(c, TRUE, TRUE, TRUE)]
        ELSE [err |-> OK, capsule |-> TRUE, ev |-> ev4]

\* _cctx_capsule_destructor and _dctx_capsule_destructor.
capsule_destructor(c) == <<FreeOf(c), "PyThread_free_lock", "PyMem_Del">>

\* A variant of capsule_dealloc that counts the names only.
capsule_dealloc_unnamed(k) == ~k.named

\* The destructor given to PyCapsule_New runs when the last reference to
\* the capsule is gone.
capsule_dealloc(k) == k.refs = 0

\* A reference to the capsule of context c, k being its record, is dropped.
Py_DECREF(c, k) ==
    IF capsule_dealloc([k EXCEPT !.refs = @ - 1])
    THEN [k EXCEPT !.refs = @ - 1, !.ev = @ \o capsule_destructor(c)]
    ELSE [k EXCEPT !.refs = @ - 1]

(***************************************************************************)
(* The sequential specification: one caller, one compression context, one  *)
(* decompression context.  `strm` is the caller's record of the frame it   *)
(* streams through cctx, `feed` its record of the frame it feeds to dctx,  *)
(* `last` the latest call with the contexts as they were before it.        *)
(***************************************************************************)
VARIABLES cctx, dctx, strm, feed, last

\* The threaded specification further down has its own variables: the GIL,
\* the lock of each context, who took it, where each thread is, and the
\* capsule of each context: whether the program still has a name for it,
\* its reference count, whether its name was deleted while its lock was
\* held, and the frees made for it.
VARIABLES gil, lk, hold, th, caps

seqvars == <<cctx, dctx, strm, feed, last>>
mtvars == <<gil, lk, hold, th, caps>>
vars == <<cctx, dctx, strm, feed, last, gil, lk, hold, th, caps>>

strm0 == [st |-> "none", a |-> <<>>, plain |-> <<>>, out |-> <<>>, zero |-> FALSE]
feed0 == [frame |-> <<>>, plain |-> <<>>, pos |-> 0, got |-> <<>>]

Threads == {"t1", "t2"}
Ctxs == {"cctx", "dctx"}
thread_out == [pc |-> "out", op |-> "none", ctx |-> "none", len |-> 0, chunk_len |-> 0,
               chunk_written |-> 0, todo |-> <<>>, lock_acquired |-> 0, err |-> FALSE,
               ptr |-> 0]

InitSeq ==
    /\ cctx = cctx_new
    /\ dctx = dctx_new
    /\ strm = strm0
    /\ feed = feed0
    /\ last = [op |-> "init"]

InitMT ==
    /\ gil = "none"
    /\ lk = [c \in Ctxs |-> 0]
    /\ hold = [c \in Ctxs |-> "none"]
    /\ th = [t \in Threads |-> thread_out]
    /\ caps = [c \in Ctxs |-> [named |-> TRUE, refs |-> 1, late |-> FALSE, ev |-> <<>>]]

MaxLen == 2
MaxPlain == 4

Data == UNION {[1..n -> {0, 1}] : n \in 0..MaxLen}
BlockIds == {LZ4F_default, LZ4F_max64KB, LZ4F_max256KB, LZ4F_max1MB, LZ4F_max4MB, 3, 8}
Levels == {-1, LZ4_COMPRESSION_MIN, LZ4_COMPRESSION_MAX, LZ4_COMPRESSION_MAX + 1}
Hints == {-1, 0, 1, 2, 1024}
Faults == {"none", "noncontig", "badctx", "mem1", "mem2", "mem3", "mem4"}

MemOf(f) ==
    CASE f = "mem1" -> 1 [] f = "mem2" -> 2 [] f = "mem3" -> 3 [] f = "mem4" -> 4
      [] OTHER -> 0


Snap == [cctx |-> cctx, dctx |-> dctx, strm |-> strm, feed |-> feed]

\* A call that takes no context depends on its arguments only and leaves
\* nothing behind: it is explored as the only call of a run (compress,
\* decompress, get_block_size) or as the last one (decompress of the frame
\* just streamed).
Live == last.op \notin {"get_block_size", "compress", "decompress",
                       "create_context", "destroy_context"}
Fresh == last.op = "init"
\* The two contexts do not share state: calls on one are made while the
\* caller is not in the middle of a frame on the other.
CQuiet == Live /\ cctx = cctx_new /\ strm = strm0
DQuiet == Live /\ dctx = dctx_new /\ feed = feed0 /\ strm.st # "broken"

Init == InitSeq /\ InitMT

CompressArgs ==
    {[b |-> b, contig |-> f # "noncontig", block_size_id |-> id,
      block_mode_linked |-> l, checksum |-> k, level |-> lv, block_checksum |-> bc,
      mem |-> MemOf(f)] :
        b \in Data, id \in BlockIds, l \in 0..1, k \in 0..1, lv \in Levels,
        bc \in 0..1, f \in {"none", "noncontig", "mem1", "mem2"}}

GetBlockSize ==
    /\ Fresh
    /\ \E id \in -1..8, m \in 0..1 :
         last' = [op |-> "get_block_size", a |-> [id |-> id, mem |-> m],
                  r |-> _lz4framed_get_block_size([id |-> id, mem |-> m]), pre |-> Snap]
    /\ UNCHANGED <<cctx, dctx, strm, feed>>
    /\ UNCHANGED mtvars

Compress ==
    /\ Fresh
    /\ \E a \in CompressArgs :
         last' = [op |-> "compress", a |-> a, r |-> _lz4framed_compress(a), pre |-> Snap]
    /\ UNCHANGED <<cctx, dctx, strm, feed>>
    /\ UNCHANGED mtvars

\* The frames handed to decompress: what compress returned for valid
\* arguments, whole, cut short by one cell or followed by one more cell.
FrameArgs ==
    {a \in CompressArgs : /\ a.mem = 0 /\ a.contig /\ a.b # <<>>
                          /\ _valid_lz4f_block_size_id(a.block_size_id)
                          /\ a.level \in {LZ4_COMPRESSION_MIN, LZ4_COMPRESSION_MAX}}

Shapes == {"whole", "cut", "more", "empty"}

Shaped(cells, shape) ==
    CASE shape = "cut" -> SubSeq(cells, 1, Len(cells) - 1)
      [] shape = "more" -> Append(cells, JunkCell)
      [] shape = "empty" -> <<>>
      [] OTHER -> cells

DecompressArg(cells, h, f) ==
    [b |-> cells, contig |-> f # "noncontig", buffer_size |-> h,
     mem |-> MemOf(f), warn_err |-> f = "warn_err"]

DecompressArgs(cells, shape) ==
    {DecompressArg(Shaped(cells, shape), h, "none") : h \in Hints}
    \cup {DecompressArg(Shaped(cells, shape), 1, f) :
            f \in {"noncontig", "mem1", "mem2", "mem3", "warn_err"}}

\* decompress of a frame that compress produced.
Decompress ==
    /\ Fresh
    /\ \E ca \in FrameArgs, shape \in Shapes :
         \E a \in DecompressArgs(Content(_lz4framed_compress(ca).ret, JunkCell), shape) :
            last' = [op |-> "decompress", a |-> a, r |-> _lz4framed_decompress(a),
                     pre |-> Snap, from |-> "compress", ca |-> ca, plain |-> ca.b,
                     shape |-> shape]
    /\ UNCHANGED <<cctx, dctx, strm, feed>>
    /\ UNCHANGED mtvars

\* decompress of the frame the caller has streamed through cctx.
DecompressStreamed ==
    /\ strm.st = "done"
    /\ DQuiet
    /\ \E a \in DecompressArgs(strm.out, "whole") :
         last' = [op |-> "decompress", a |-> a, r |-> _lz4framed_decompress(a),
                  pre |-> Snap, from |-> "stream", ca |-> strm.a, plain |-> strm.plain,
                  shape |-> "whole"]
    /\ UNCHANGED <<cctx, dctx, strm, feed>>
    /\ UNCHANGED mtvars

\* Preference choices of compress_begin: <<block_size_id, block_mode_linked,
\* checksum, level, block_checksum, autoflush>>.
BeginChoices ==
    {<<LZ4F_default, 1, 0, LZ4_COMPRESSION_MIN, 0, 0>>,
     <<LZ4F_max4MB, 0, 1, LZ4_COMPRESSION_MAX, 1, 1>>,
     <<LZ4F_max64KB, 1, 1, 3, 0, 1>>,
     <<LZ4F_max256KB, 0, 0, -1, 1, 0>>}

BeginArg(c, f) ==
    [ctx |-> IF f = "badctx" THEN "none" ELSE "cctx", block_size_id |-> c[1],
     block_mode_linked |-> c[2], checksum |-> c[3], level |-> c[4],
     block_checksum |-> c[5], autoflush |-> c[6], mem |-> MemOf(f)]

BeginArgs ==
    {BeginArg(c, "none") : c \in BeginChoices}
    \cup {BeginArg(<<LZ4F_max4MB, 0, 1, LZ4_COMPRESSION_MAX, 1, 1>>, f) :
            f \in {"badctx", "mem1", "mem2"}}
    \cup {BeginArg(<<id, 0, 1, LZ4_COMPRESSION_MAX, 1, 1>>, "none") : id \in {3, 8}}
    \cup {BeginArg(<<LZ4F_max4MB, 0, 1, LZ4_COMPRESSION_MAX + 1, 1, 1>>, "none")}

\* The caller's record after a call on cctx: a successful begin opens a new
\* record, a successful update or end extends the open one, and a call that
\* failed after it had changed the context leaves a frame the caller cannot
\* assemble: the caller gives the context up.
StreamAfter(op, a, o) ==
    LET bytes == Content(o.r.ret, JunkCell) IN
    IF o.r.err = OK THEN
        CASE op = "compress_begin" ->
                [st |-> "open", a |-> a, plain |-> <<>>, out |-> bytes, zero |-> FALSE]
          [] op = "compress_update" /\ strm.st = "open" ->
                [strm EXCEPT !.plain = @ \o a.b, !.out = @ \o bytes,
                             !.zero = @ \/ bytes = <<>>]
          [] op = "compress_end" /\ strm.st = "open" ->
                [strm EXCEPT !.st = "done", !.out = @ \o bytes]
          [] OTHER -> [strm0 EXCEPT !.st = "broken"]
    ELSE IF o.c # cctx THEN [strm0 EXCEPT !.st = "broken"]
    ELSE strm

Begin ==
    /\ DQuiet
    /\ \E a \in BeginArgs :
         \E o \in {_lz4framed_compress_begin(cctx, a)} :
         /\ cctx' = o.c
         /\ strm' = StreamAfter("compress_begin", a, o)
         /\ last' = [op |-> "compress_begin", a |-> a, r |-> o.r, pre |-> Snap]
    /\ UNCHANGED <<dctx, feed>>
    /\ UNCHANGED mtvars

UpdateArg(b, f) ==
    [ctx |-> IF f = "badctx" THEN "none" ELSE "cctx", b |-> b,
     contig |-> f # "noncontig", mem |-> MemOf(f)]

UpdateArgs ==
    {UpdateArg(b, "none") : b \in Data}
    \cup {UpdateArg(<<1>>, f) : f \in {"noncontig", "badctx", "mem1", "mem2"}}

Update ==
    /\ DQuiet
    /\ \E a \in UpdateArgs :
         \E o \in {_lz4framed_compress_update(cctx, a)} :
         /\ cctx.ctx.cStage = 0 \/ cctx.ctx.total + Len(a.b) <= MaxPlain
         /\ cctx' = o.c
         /\ strm' = StreamAfter("compress_update", a, o)
         /\ last' = [op |-> "compress_update", a |-> a, r |-> o.r, pre |-> Snap]
    /\ UNCHANGED <<dctx, feed>>
    /\ UNCHANGED mtvars

EndArgs ==
    {[ctx |-> IF f = "badctx" THEN "none" ELSE "cctx", mem |-> MemOf(f)] :
        f \in {"none", "badctx", "mem1", "mem2"}}

End ==
    /\ DQuiet
    /\ \E a \in EndArgs :
         \E o \in {_lz4framed_compress_end(cctx, a)} :
         /\ cctx' = o.c
         /\ strm' = StreamAfter("compress_end", a, o)
         /\ last' = [op |-> "compress_end", a |-> a, r |-> o.r, pre |-> Snap]
    /\ UNCHANGED <<dctx, feed>>
    /\ UNCHANGED mtvars

GetFrameInfo ==
    /\ CQuiet
    /\ \E a \in {[ctx |-> c, mem |-> m] : c \in {"dctx", "none"}, m \in 0..1} :
         \E o \in {_lz4framed_get_frame_info(dctx, a)} :
         /\ dctx' = o.c
         /\ last' = [op |-> "get_frame_info", a |-> a, r |-> o.r, pre |-> Snap]
    /\ UNCHANGED <<cctx, strm, feed>>
    /\ UNCHANGED mtvars

\* The frames fed to decompress_update, with the bytes they were made from.
FeedFrames ==
    {[frame |-> Shaped(Content(_lz4framed_compress(p[1]).ret, JunkCell), p[2]),
      plain |-> p[1].b, pos |-> 0, got |-> <<>>] :
        p \in {q \in FrameArgs \X {"whole", "more"} :
                 /\ q[1].block_size_id = LZ4F_default
                 /\ q[1].level = LZ4_COMPRESSION_MIN
                 /\ q[1].block_mode_linked = 1
                 /\ q[1].block_checksum = q[1].checksum
                 /\ (q[1].checksum = 1) = (q[2] = "more")}}

ABIs == {"LP64LE", "LP64BE", "ILP32"}

\* The decompress_update calls: how much of the source is handed over (3:
\* all that is left) and with which chunk_len; the usual calls, then calls
\* with one thing wrong each.
UpdateCall(k, h, v, abi, f) ==
    [k |-> k, has_chunk_len |-> h, chunk_len |-> v, abi |-> abi, fault |-> f]

UpdateCalls ==
    {UpdateCall(k, TRUE, v, "LP64LE", "none") : k \in 1..3, v \in 1..2}
    \cup {UpdateCall(k, FALSE, 0, "LP64LE", "none") : k \in 0..3}
    \cup {UpdateCall(3, FALSE, 0, "LP64LE", f) : f \in Faults \ {"none"}}
    \cup {UpdateCall(3, TRUE, v, abi, "none") : v \in {-2, -1, 0, 2}, abi \in ABIs}

RECURSIVE Concat(_)
Concat(list) ==
    IF list = <<>> THEN <<>> ELSE Content(Head(list), JunkByte) \o Concat(Tail(list))

\* The caller's record after a decompress_update on `data` of source f; a
\* call that failed after it had changed the context ends the feeding.
FeedAfter(f, data, o) ==
    IF o.r.err = OK THEN
        IF o.r.num = 0 THEN feed0
        ELSE [f EXCEPT !.pos = @ + Len(data), !.got = @ \o Concat(o.r.list)]
    ELSE IF o.c # dctx THEN [feed0 EXCEPT !.pos = -1]
    ELSE feed

\* A frame is started on a context that has seen nothing yet, or right after
\* a frame that went through in one call with the default chunk length.
FeedStart ==
    \/ last.op = "init"
    \/ /\ last.op = "decompress_update" /\ last.r.err = OK /\ last.r.num = 0
       /\ last.pre.feed = feed0 /\ ~last.a.has_chunk_len

DecompressUpdate ==
    /\ CQuiet
    /\ feed.pos >= 0
    /\ feed.frame = <<>> => FeedStart
    /\ \E f \in (IF feed.frame = <<>> THEN FeedFrames ELSE {feed}), opt \in UpdateCalls :
         LET rest == Len(f.frame) - f.pos
             n == IF opt.k = 3 THEN rest ELSE Min(opt.k, rest)
             a == [ctx |-> IF opt.fault = "badctx" THEN "none" ELSE "dctx",
                   b |-> SubSeq(f.frame, f.pos + 1, f.pos + n),
                   contig |-> opt.fault # "noncontig",
                   has_chunk_len |-> opt.has_chunk_len, chunk_len |-> opt.chunk_len,
                   abi |-> opt.abi, mem |-> MemOf(opt.fault)]
         IN  /\ rest > 0
             /\ \E o \in {_lz4framed_decompress_update(dctx, a)} :
                  /\ dctx' = o.c
                  /\ feed' = FeedAfter(f, a.b, o)
                  /\ last' = [op |-> "decompress_update", a |-> a, r |-> o.r,
                              pre |-> Snap, plain |-> f.plain,
                              got |-> f.got \o Concat(o.r.list),
                              chunk_len |-> chunk_len_parsed(a)]
    /\ UNCHANGED <<cctx, strm>>
    /\ UNCHANGED mtvars

\* create_compression_context or create_decompression_context is called:
\* any of its steps may fail.
CreateContext ==
    /\ Fresh
    /\ \E c \in Ctxs, fail \in 0..4 :
         last' = [op |-> "create_context", c |-> c, fail |-> fail,
                  r |-> create_context(c, fail), freed |-> <<>>, pre |-> Snap]
    /\ UNCHANGED <<cctx, dctx, strm, feed>>
    /\ UNCHANGED mtvars

\* The caller lets go of the capsule it was given, which nothing else
\* refers to: the capsule's destructor runs.
DestroyContext ==
    /\ last.op = "create_context"
    /\ last.r.capsule
    /\ last' = [last EXCEPT !.op = "destroy_context", !.freed = capsule_destructor(last.c)]
    /\ UNCHANGED <<cctx, dctx, strm, feed>>
    /\ UNCHANGED mtvars

Next ==
    \/ GetBlockSize
    \/ Compress
    \/ Decompress
    \/ DecompressStreamed
    \/ Begin
    \/ Update
    \/ End
    \/ GetFrameInfo
    \/ DecompressUpdate
    \/ CreateContext
    \/ DestroyContext

Spec == Init /\ [][Next]_vars
(***************************************************************************)
(* The threaded specification: threads call compress_begin, compress_update,*)
(* compress_end on cctx and get_frame_info, decompress_update on dctx, and  *)
(* compress and decompress, which take no context.  A thread runs Python   *)
(* code while it has the GIL; a call is followed step by step through      *)
(* ENTER_LZ4FRAMED, the statements between it and EXIT_LZ4FRAMED, and the  *)
(* return.  Buffers are their lengths only.                                *)
(***************************************************************************)
MaxIter == 2

Lens == {0, 1, NOGIL_COMPRESS_INPUT_SIZE_THRESHOLD}
ChunkLens == {0, 1, NOGIL_DECOMPRESS_OUTPUT_SIZE_THRESHOLD}

OpsOf(c) ==
    IF c = "cctx" THEN {"compress_begin", "compress_update", "compress_end"}
    ELSE {"get_frame_info", "decompress_update"}

\* What a function does between ENTER_LZ4FRAMED and EXIT_LZ4FRAMED: reads or
\* writes of the stored preferences, allocations, native calls on the handle
\* (n passes of the loop in decompress_update).
Plan(op, n) ==
    CASE op \in {"compress_begin", "compress_update", "compress_end"} ->
            <<"prefs", "alloc", "native">>
      [] op = "get_frame_info" -> <<"native", "alloc">>
      [] OTHER -> [i \in 1..n |-> "native"]

\* The checks a function makes before ENTER_LZ4FRAMED.
PassesChecks(op, len, chunk_len, valid) ==
    CASE op = "compress_update" -> valid /\ ~(len <= 0)
      [] op = "decompress_update" -> valid /\ ~(len <= 0) /\ ~(chunk_len <= 0)
      [] OTHER -> valid

\* The functions that take no context: compress and decompress.
OneShotOps == {"compress", "decompress"}

\* The input lengths of decompress: none, and one byte more than the
\* threshold, which leaves the threshold after a header of one byte.
DecompressLens == {0, NOGIL_DECOMPRESS_INPUT_SIZE_THRESHOLD + 1}

\* What compress and decompress do after their checks: compress allocates
\* the output and compresses the frame; decompress creates a decoder, reads
\* the frame header, allocates the output and decodes in n passes.
PlanOneShot(op, n) ==
    IF op = "compress" THEN <<"alloc", "native">>
    ELSE <<"alloc", "header", "alloc">> \o [i \in 1..n |-> "native"]

\* A variant of WithoutGil that releases the GIL above the thresholds only.
WithoutGil_above(r) ==
    \/ r.op \in {"compress", "compress_update"}
         /\ ~(r.len <= NOGIL_COMPRESS_INPUT_SIZE_THRESHOLD)
    \/ r.op = "decompress" /\ ~(r.len <= NOGIL_DECOMPRESS_INPUT_SIZE_THRESHOLD)
    \/ /\ r.op = "decompress_update"
       /\ ~(r.chunk_written <= NOGIL_DECOMPRESS_OUTPUT_SIZE_THRESHOLD)

\* Whether the native call of thread record r is made with the GIL released:
\* r.len is input.len in compress and compress_update and input_read in
\* decompress, r.chunk_written is chunk_written in decompress_update.
WithoutGil(r) ==
    \/ r.op \in {"compress", "compress_update"}
         /\ ~(r.len < NOGIL_COMPRESS_INPUT_SIZE_THRESHOLD)
    \/ r.op = "decompress" /\ ~(r.len < NOGIL_DECOMPRESS_INPUT_SIZE_THRESHOLD)
    \/ /\ r.op = "decompress_update"
       /\ ~(r.chunk_written < NOGIL_DECOMPRESS_OUTPUT_SIZE_THRESHOLD)

\* A variant of AcquireGuard that never waits.
AcquireGuard_open(c) == TRUE

\* PyThread_acquire_lock(lock, 1) returns once the lock is free.
AcquireGuard(c) == lk[c] = 0

\* A variant of LockOf with one lock for all the contexts.
LockOf_shared(c) == "cctx"

\* (ctx)->lock: the lock ENTER_LZ4FRAMED and EXIT_LZ4FRAMED work on is the
\* one of the context the call was given.
LockOf(c) == c

\* A variant of PyThread_acquire_lock that comes back without the lock.
PyThread_acquire_lock_not(l, c) == l

\* PyThread_acquire_lock((ctx)->lock, 1): the lock of context c is held.
PyThread_acquire_lock(l, c) == [l EXCEPT ![c] = 1]

\* A variant of EXIT_releases that goes by the context pointer alone.
EXIT_releases_unflagged(r) == TRUE

\* EXIT_LZ4FRAMED releases the lock if the context pointer is not NULL and
\* lock_acquired is set.
EXIT_releases(r) == r.ptr # 0 /\ r.lock_acquired # 0

\* Whether something can fail between EXIT_LZ4FRAMED and the return: the
\* resize of the output and, in decompress_update, the last appends.
FailsAfterExit(op) == op # "get_frame_info"

\* The call: argument parsing and the checks, with the GIL, then the
\* context pointer is taken from the capsule and, in decompress_update, the
\* list and the first chunk are allocated; a failure is a goto bail.  The
\* capsule is an argument of the call, which holds a reference to it until
\* it returns.
CallOf(t, lens, chunk_lens, passes) ==
    /\ th[t].pc = "out"
    /\ gil = "none"
    /\ \E c \in Ctxs, len \in lens, cl \in chunk_lens, valid \in BOOLEAN, n \in passes :
         \E op \in OpsOf(c), allocated \in BOOLEAN :
            /\ caps[c].named
            /\ ~allocated => op = "decompress_update" /\ PassesChecks(op, len, cl, valid)
            /\ th' = [th EXCEPT ![t] =
                     [pc |-> IF PassesChecks(op, len, cl, valid) /\ allocated
                             THEN "enter" ELSE "bail_out",
                      op |-> op, ctx |-> c, len |-> len, chunk_len |-> cl,
                      chunk_written |-> cl, todo |-> Plan(op, n),
                      lock_acquired |-> 0, err |-> FALSE,
                      ptr |-> IF PassesChecks(op, len, cl, valid) THEN 1 ELSE 0]]
            /\ caps' = [caps EXCEPT ![c].refs = @ + 1]
    /\ gil' = t
    /\ UNCHANGED <<lk, hold>>
    /\ UNCHANGED seqvars

Call(t) == CallOf(t, Lens, ChunkLens, 1..MaxIter)

\* A call of compress or decompress: argument parsing and the checks, with
\* the GIL; a failure is a goto bail.  No context, no lock.
CallOneShot(t) ==
    /\ th[t].pc = "out"
    /\ gil = "none"
    /\ \E op \in OneShotOps, valid \in BOOLEAN, n \in 1..MaxIter :
         \E len \in IF op = "compress" THEN Lens ELSE DecompressLens :
            th' = [th EXCEPT ![t] =
                     [thread_out EXCEPT
                        !.pc = IF valid /\ ~(len <= 0) THEN "body" ELSE "bail_out",
                        !.op = op, !.len = len, !.todo = PlanOneShot(op, n)]]
    /\ gil' = t
    /\ UNCHANGED <<lk, hold>>
    /\ UNCHANGED caps
    /\ UNCHANGED seqvars

\* A variant of Py_BEGIN_ALLOW_THREADS that keeps the GIL.
Py_BEGIN_ALLOW_THREADS_not(t) == t

\* Py_BEGIN_ALLOW_THREADS: the GIL is free.
Py_BEGIN_ALLOW_THREADS(t) == "none"

\* ENTER_LZ4FRAMED, Py_BEGIN_ALLOW_THREADS.
Enter(t) ==
    /\ th[t].pc = "enter"
    /\ gil = t
    /\ th[t].lock_acquired = 0
    /\ th' = [th EXCEPT ![t].pc = "acquire"]
    /\ gil' = Py_BEGIN_ALLOW_THREADS(t)
    /\ UNCHANGED <<lk, hold>>
    /\ UNCHANGED caps
    /\ UNCHANGED seqvars

\* ENTER_LZ4FRAMED, PyThread_acquire_lock.
Acquire(t) ==
    /\ th[t].pc = "acquire"
    /\ AcquireGuard(LockOf(th[t].ctx))
    /\ lk' = PyThread_acquire_lock(lk, LockOf(th[t].ctx))
    /\ hold' = [hold EXCEPT ![LockOf(th[t].ctx)] = t]
    /\ th' = [th EXCEPT ![t].pc = "locked"]
    /\ UNCHANGED gil
    /\ UNCHANGED caps
    /\ UNCHANGED seqvars

\* ENTER_LZ4FRAMED, Py_END_ALLOW_THREADS and lock_acquired = 1.
EnterResume(t) ==
    /\ th[t].pc = "locked"
    /\ gil = "none"
    /\ gil' = t
    /\ th' = [th EXCEPT ![t].pc = "body", ![t].lock_acquired = 1]
    /\ UNCHANGED <<lk, hold>>
    /\ UNCHANGED caps
    /\ UNCHANGED seqvars

\* A read or write of the stored preferences starts.
PrefsStart(t) ==
    /\ th[t].pc = "body" /\ gil = t
    /\ th[t].todo # <<>> /\ Head(th[t].todo) = "prefs"
    /\ th' = [th EXCEPT ![t].pc = "in_prefs"]
    /\ UNCHANGED <<gil, lk, hold>>
    /\ UNCHANGED caps
    /\ UNCHANGED seqvars

PrefsDone(t) ==
    /\ th[t].pc = "in_prefs" /\ gil = t
    /\ th' = [th EXCEPT ![t].pc = "body", ![t].todo = Tail(@)]
    /\ UNCHANGED <<gil, lk, hold>>
    /\ UNCHANGED caps
    /\ UNCHANGED seqvars

\* An allocation between ENTER and EXIT: it succeeds or the function bails.
Alloc(t) ==
    /\ th[t].pc = "body" /\ gil = t
    /\ th[t].todo # <<>> /\ Head(th[t].todo) = "alloc"
    /\ \E ok \in BOOLEAN :
         th' = [th EXCEPT ![t].pc = IF ok THEN "body" ELSE "bail",
                          ![t].todo = Tail(@)]
    /\ UNCHANGED <<gil, lk, hold>>
    /\ UNCHANGED caps
    /\ UNCHANGED seqvars

\* decompress reads the frame header, with the GIL: LZ4F_getFrameInfo fails
\* or takes h bytes of the input, and input_read is what remains.
FrameHeader(t) ==
    /\ th[t].pc = "body" /\ gil = t
    /\ th[t].todo # <<>> /\ Head(th[t].todo) = "header"
    /\ \E ok \in BOOLEAN, h \in {1, th[t].len} :
         th' = [th EXCEPT ![t].pc = IF ok THEN "body" ELSE "bail",
                          ![t].todo = Tail(@),
                          ![t].len = IF ok THEN @ - h ELSE @]
    /\ UNCHANGED <<gil, lk, hold>>
    /\ UNCHANGED caps
    /\ UNCHANGED seqvars

\* A native call on the handle starts, the GIL released first when the
\* buffer is large.
NativeStart(t) ==
    /\ th[t].pc = "body" /\ gil = t
    /\ th[t].todo # <<>> /\ Head(th[t].todo) = "native"
    /\ th' = [th EXCEPT ![t].pc = IF WithoutGil(th[t]) THEN "in_native_nogil"
                                  ELSE "in_native"]
    /\ gil' = IF WithoutGil(th[t]) THEN "none" ELSE gil
    /\ UNCHANGED <<lk, hold>>
    /\ UNCHANGED caps
    /\ UNCHANGED seqvars

\* The native call returns: an error or not; in decompress_update it may
\* have filled part of the chunk (the next pass replaces a full chunk by a
\* newly allocated one) and it may have ended the loop.
NativeDone(t) ==
    /\ th[t].pc \in {"in_native", "in_native_nogil"}
    /\ th[t].pc = "in_native" => gil = t
    /\ \E err \in BOOLEAN, stop \in BOOLEAN, w \in {0, 1, th[t].chunk_written} :
         \E rd \in IF th[t].op = "decompress" THEN {0, 1, th[t].len} ELSE {0} :
         LET left == th[t].chunk_written - w
             cw == IF th[t].op # "decompress_update" THEN th[t].chunk_written
                   ELSE IF left <= 0 THEN th[t].chunk_len ELSE left
             rest == Tail(th[t].todo)
             input_read == IF rd <= th[t].len THEN th[t].len - rd ELSE 0
             incomplete == th[t].op = "decompress" /\ ~stop /\ input_read = 0
             todo == IF th[t].op = "decompress"
                     THEN IF stop THEN <<>>
                          ELSE IF rest # <<>> THEN <<"alloc">> \o rest
                          ELSE rest
                     ELSE IF th[t].op # "decompress_update" THEN rest
                     ELSE IF stop THEN <<>>
                     ELSE IF left <= 0 /\ rest # <<>> THEN <<"alloc">> \o rest
                     ELSE rest
         IN  /\ th[t].op # "decompress_update" => w = 0
             /\ th' = [th EXCEPT
                      ![t].pc = IF th[t].pc = "in_native_nogil" THEN "native_done"
                                ELSE IF err \/ incomplete THEN "bail" ELSE "body",
                      ![t].err = err \/ incomplete, ![t].todo = todo,
                      ![t].chunk_written = cw,
                      ![t].len = IF th[t].op = "decompress" THEN input_read ELSE @]
    /\ UNCHANGED <<gil, lk, hold>>
    /\ UNCHANGED caps
    /\ UNCHANGED seqvars

\* Py_END_ALLOW_THREADS after a native call made without the GIL.
NativeResume(t) ==
    /\ th[t].pc = "native_done"
    /\ gil = "none"
    /\ gil' = t
    /\ th' = [th EXCEPT ![t].pc = IF th[t].err THEN "bail" ELSE "body"]
    /\ UNCHANGED <<lk, hold>>
    /\ UNCHANGED caps
    /\ UNCHANGED seqvars

\* EXIT_LZ4FRAMED, after the last statement of the section or at bail,
\* which is reached from inside the section ("bail") or from outside it
\* ("bail_out").
Exit(t) ==
    /\ th[t].op \notin OneShotOps
    /\ \/ th[t].pc = "body" /\ th[t].todo = <<>>
       \/ th[t].pc \in {"bail", "bail_out"}
    /\ gil = t
    /\ IF EXIT_releases(th[t])
       THEN /\ lk' = [lk EXCEPT ![LockOf(th[t].ctx)] = 0]
            /\ hold' = [hold EXCEPT ![LockOf(th[t].ctx)] = "none"]
       ELSE UNCHANGED <<lk, hold>>
    /\ th' = [th EXCEPT ![t].pc = IF th[t].pc = "body" THEN "after" ELSE "ret",
                         ![t].lock_acquired = IF EXIT_releases(th[t]) THEN 0 ELSE @]
    /\ UNCHANGED gil
    /\ UNCHANGED caps
    /\ UNCHANGED seqvars

\* compress and decompress have no EXIT_LZ4FRAMED: after the native calls
\* comes the resize of the output, and bail goes to the return.
Finish(t) ==
    /\ th[t].op \in OneShotOps
    /\ \/ th[t].pc = "body" /\ th[t].todo = <<>>
       \/ th[t].pc \in {"bail", "bail_out"}
    /\ gil = t
    /\ th' = [th EXCEPT ![t].pc = IF th[t].pc = "body" THEN "after" ELSE "ret"]
    /\ UNCHANGED <<gil, lk, hold>>
    /\ UNCHANGED caps
    /\ UNCHANGED seqvars

\* The statements between EXIT_LZ4FRAMED and the return: they succeed, or
\* one fails and the function goes to bail.
AfterExit(t) ==
    /\ th[t].pc = "after"
    /\ gil = t
    /\ \E ok \in BOOLEAN :
         /\ ~ok => FailsAfterExit(th[t].op)
         /\ th' = [th EXCEPT ![t].pc = IF ok THEN "ret" ELSE "bail_out"]
    /\ UNCHANGED <<gil, lk, hold>>
    /\ UNCHANGED caps
    /\ UNCHANGED seqvars

\* The function returns, the reference its arguments held is dropped and
\* the thread gives the GIL up.
Return(t) ==
    /\ th[t].pc = "ret"
    /\ gil = t
    /\ th' = [th EXCEPT ![t] = thread_out]
    /\ caps' = IF th[t].ctx \in Ctxs
               THEN [caps EXCEPT ![th[t].ctx] = Py_DECREF(th[t].ctx, @)]
               ELSE caps
    /\ gil' = "none"
    /\ UNCHANGED <<lk, hold>>
    /\ UNCHANGED seqvars

\* A thread deletes the program's name for a context, between two of its
\* calls and with the GIL: the statement drops a reference and is over.
Del(t) ==
    /\ th[t].pc = "out"
    /\ gil = "none"
    /\ \E c \in Ctxs :
         /\ caps[c].named
         /\ caps' = [caps EXCEPT ![c] =
                       Py_DECREF(c, [@ EXCEPT !.named = FALSE, !.late = lk[c] = 1])]
    /\ UNCHANGED <<gil, lk, hold, th>>
    /\ UNCHANGED seqvars

NextMT ==
    \E t \in Threads :
        \/ Call(t)
        \/ CallOneShot(t)
        \/ Enter(t)
        \/ Acquire(t)
        \/ EnterResume(t)
        \/ PrefsStart(t)
        \/ PrefsDone(t)
        \/ Alloc(t)
        \/ FrameHeader(t)
        \/ NativeStart(t)
        \/ NativeDone(t)
        \/ NativeResume(t)
        \/ Exit(t)
        \/ Finish(t)
        \/ AfterExit(t)
        \/ Return(t)
        \/ Del(t)

SpecMT == Init /\ [][NextMT]_vars

\* The steps of a call of thread t, from ENTER_LZ4FRAMED to the return.
Step(t) ==
    \/ Enter(t)
    \/ Acquire(t)
    \/ EnterResume(t)
    \/ PrefsStart(t)
    \/ PrefsDone(t)
    \/ Alloc(t)
    \/ NativeStart(t)
    \/ NativeDone(t)
    \/ NativeResume(t)
    \/ Exit(t)
    \/ AfterExit(t)
    \/ Return(t)

\* Fair scheduling: a thread that can take a step takes one in the end
\* (native calls return among them), and a thread that waits for a lock or
\* for the GIL gets it if it is free again and again.
Fairness ==
    \A t \in Threads :
        /\ WF_vars(Step(t))
        /\ SF_vars(Acquire(t))
        /\ SF_vars(EnterResume(t))
        /\ SF_vars(NativeResume(t))

\* A call with buffers at the thresholds and a loop of one pass.
CallLarge(t) ==
    CallOf(t, {NOGIL_COMPRESS_INPUT_SIZE_THRESHOLD},
           {NOGIL_DECOMPRESS_OUTPUT_SIZE_THRESHOLD}, {1})

NextMTFair ==
    \E t \in Threads :
        \/ CallLarge(t)
        \/ Step(t)
        \/ Del(t)

\* The threaded specification under fair scheduling, with the calls that
\* have both kinds of native call in them: with the GIL and without.
SpecMTFair == Init /\ [][NextMTFair]_vars /\ Fairness

\* Where a thread is between taking the lock and giving it back.
SectionPcs ==
    {"locked", "body", "in_prefs", "in_native", "in_native_nogil", "native_done", "bail"}

InSection(t, c) == th[t].ctx = c /\ th[t].pc \in SectionPcs

\* The thread is in a native call on the handle of c or at its preferences.
Using(t, c) == th[t].ctx = c /\ th[t].pc \in {"in_prefs", "in_native", "in_native_nogil"}

\* C1: of the threads calling the five functions on one context at most one
\* is between the lock's acquisition and its release, and a thread that is
\* in a native call on the context's handle or at its stored preferences
\* holds the context's lock.
C1_MutualExclusion ==
    \A c \in Ctxs :
        /\ Cardinality({t \in Threads : InSection(t, c)}) <= 1
        /\ \A t \in Threads : InSection(t, c) => lk[c] = 1 /\ hold[c] = t
        /\ \A t \in Threads : Using(t, c) => lk[c] = 1 /\ hold[c] = t

C1_Witness ==
    \E t \in Threads, u \in Threads :
        /\ t # u
        /\ th[t].ctx = th[u].ctx
        /\ th[t].pc = "in_native_nogil"
        /\ th[u].pc = "acquire"
        /\ gil \notin {t, u}

(***************************************************************************)
(* The decode loop specification.  One call of decompress on a frame is    *)
(* followed pass by pass through its while (1) loop: last holds the call's *)
(* locals s, the locals prev of the pass before, what the decoder has      *)
(* produced so far (made) and what its last call reported (hint, nerr).    *)
(* Or the frame is fed to a decompression context by decompress_update, in *)
(* one call or in two, with a chunk_len smaller than its data.             *)
(***************************************************************************)
MaxOut == 7

\* Buffers that compress well (runs of one byte) and the short ones.
DecData ==
    {[i \in 1..n |-> b] : n \in 1..MaxOut, b \in 0..1} \cup (Data \ {<<>>})

\* The frame compress makes of b, with the content size it declares.
SizedFrame(b, linked, sums) ==
    Content(_lz4framed_compress(
                [b |-> b, contig |-> TRUE, block_size_id |-> LZ4F_default,
                 block_mode_linked |-> linked, checksum |-> sums,
                 level |-> LZ4_COMPRESSION_MIN, block_checksum |-> sums,
                 mem |-> 0]).ret, JunkCell)

\* The same frame with another content size in its header.
Redeclared(cells, prefs, n) ==
    LZ4F_header([prefs EXCEPT !.contentSize = n])
    \o SubSeq(cells, Len(LZ4F_header(prefs)) + 1, Len(cells))

RECURSIVE StreamUpdates(_, _)
StreamUpdates(cc, pieces) ==
    Strict(<<cc, pieces>>, LAMBDA x :
        IF x[2] = <<>> THEN <<>>
        ELSE LET o == _lz4framed_compress_update(x[1], UpdateArg(Head(x[2]), "none"))
             IN  <<o>> \o StreamUpdates(o.c, Tail(x[2])))

\* The frame compress_begin, one compress_update per piece and compress_end
\* make on a new context: it declares no content size.
StreamedFrame(choice, pieces) ==
    LET b == _lz4framed_compress_begin(cctx_new, BeginArg(choice, "none"))
        u == StreamUpdates(b.c, pieces)
        c == IF u = <<>> THEN b.c ELSE u[Len(u)].c
        e == _lz4framed_compress_end(c, [ctx |-> "cctx", mem |-> 0])
        RECURSIVE outs(_)
        outs(k) == IF k > Len(u) THEN <<>>
                   ELSE Content(u[k].r.ret, JunkCell) \o outs(k + 1)
    IN  Content(b.r.ret, JunkCell) \o outs(1) \o Content(e.r.ret, JunkCell)

Pieces(b) ==
    {<<b>>} \cup (IF Len(b) >= 2
                  THEN {<<SubSeq(b, 1, Len(b) \div 2), SubSeq(b, Len(b) \div 2 + 1, Len(b))>>}
                  ELSE {})

DecFrame(cells, plain, kind, shape) ==
    [cells |-> Shaped(cells, shape), plain |-> plain, kind |-> kind, shape |-> shape]

\* The frames handed to decompress: made by compress (whole, cut by a cell,
\* with a cell more, or declaring one byte less or more than they hold) and
\* made by streaming.
DecFrames ==
    {DecFrame(SizedFrame(b, l, k), b, "sized", sh) :
        b \in DecData, l \in 0..1, k \in 0..1, sh \in {"whole", "cut", "more"}}
    \cup {DecFrame(Redeclared(SizedFrame(b, l, k),
                              compress_prefs([b |-> b, block_size_id |-> LZ4F_default,
                                              block_mode_linked |-> l, checksum |-> k,
                                              level |-> LZ4_COMPRESSION_MIN,
                                              block_checksum |-> k]),
                              Len(b) + n),
                   b, IF n < 0 THEN "short" ELSE "long", "whole") :
            b \in {d \in DecData : Len(d) >= 2}, l \in 0..1, k \in 0..1, n \in {-1, 1}}
    \cup {DecFrame(StreamedFrame(c, ps[2]), ps[1], "streamed", sh) :
            c \in BeginChoices, ps \in UNION {{<<b, q>> : q \in Pieces(b)} : b \in DecData},
            sh \in {"whole", "cut", "more"}}

\* The frames given to a context that has been through a frame already.
SecondFrame(f) ==
    /\ f.shape = "whole"
    /\ f.kind \in {"sized", "streamed"}
    /\ f.plain = <<1, 1, 1>>
    /\ f.cells[2].v % 4 = 3

\* What the caller keeps while it feeds a frame to a context: the frame f
\* and how much of it has been fed (pos), the context c, what the frame has
\* given so far (got), whether it is open, done or failed (st), how many
\* frames the context has finished (n), the data of the frame before
\* (first) and where in the frame get_frame_info last failed (hinc).
FeedOf(f, c, n, first) ==
    [op |-> "feed", f |-> f, pos |-> 0, c |-> c, got |-> <<>>,
     st |-> "open", n |-> n, first |-> first, hinc |-> -1,
     a |-> <<>>, r |-> Ret(OK, NULL, <<>>), pre |-> [dctx |-> c],
     chunk_len |-> 0, passes |-> 0]

\* The caller has a frame in hand: to decompress it or to feed it to a new
\* context, or to feed it to the context that has just finished a frame.
DecPick ==
    /\ last.op \in {"init", "again"}
    /\ \E f \in DecFrames :
         /\ last.op = "again" => SecondFrame(f)
         /\ last' = IF last.op = "init" THEN [op |-> "frame", f |-> f]
                    ELSE FeedOf(f, last.c, 1, last.first)
    /\ UNCHANGED <<cctx, dctx, strm, feed>>
    /\ UNCHANGED mtvars

\* decompress is called; a call that does not get as far as the loop
\* returns at once.
DecCall ==
    /\ last.op = "frame"
    /\ \E f \in {last.f} :
         \E a \in DecompressArgs(f.cells, "whole") :
            \E fi \in {LZ4F_getFrameInfo(LZ4F_dctx_new, a.b)} :
               last' = IF decompress_check(a) # OK \/ a.mem \in 1..2 \/ fi.err # OK
                       THEN [op |-> "decompress", a |-> a, f |-> f, passes |-> 0,
                             r |-> _lz4framed_decompress(a)]
                       ELSE [op |-> "decompress_loop", a |-> a, f |-> f, passes |-> 0,
                             contentSize |-> fi.info.contentSize,
                             s |-> decompress_start(a, fi),
                             prev |-> decompress_start(a, fi),
                             made |-> <<>>, hint |-> fi.hint, nerr |-> OK,
                             r |-> Ret(OK, NULL, <<>>)]
    /\ UNCHANGED <<cctx, dctx, strm, feed>>
    /\ UNCHANGED mtvars

\* One pass of the loop.
DecStep ==
    /\ last.op = "decompress_loop"
    /\ last.s.st = "loop"
    /\ \E r \in {decompress_native(last.a, last.s)} :
         last' = [last EXCEPT !.prev = last.s,
                              !.s = decompress_step(last.a, last.contentSize, last.s),
                              !.passes = @ + 1,
                              !.made = @ \o r.written,
                              !.hint = r.hint, !.nerr = r.err]
    /\ UNCHANGED <<cctx, dctx, strm, feed>>
    /\ UNCHANGED mtvars

\* The loop has been left: the result is cut to size and returned, or the
\* call bails.
DecReturn ==
    /\ last.op = "decompress_loop"
    /\ last.s.st # "loop"
    /\ last' = [last EXCEPT !.op = "decompress", !.r = decompress_finish(last.a, last.s)]
    /\ UNCHANGED <<cctx, dctx, strm, feed>>
    /\ UNCHANGED mtvars

MaxChunk == 3

\* How many cells a decompress_update may hand over when it does not hand
\* over all that is left.
FeedSteps == {2, 4}

\* A new decompression context is about to be fed the frame.
DecFeed ==
    /\ last.op = "frame"
    /\ last.f.shape \in {"whole", "more"}
    /\ last' = FeedOf(last.f, dctx_new, 0, <<>>)
    /\ UNCHANGED <<cctx, dctx, strm, feed>>
    /\ UNCHANGED mtvars

FeedOps == {"feed", "decompress_update", "get_frame_info"}

\* decompress_update on that context: some cells with the default chunk_len,
\* or all that is left with a chunk_len of 1..MaxChunk.
DecUpdate ==
    /\ last.op \in FeedOps
    /\ last.st = "open"
    /\ last.pos < Len(last.f.cells)
    /\ \E j \in {k \in FeedSteps : last.pos + k < Len(last.f.cells)} \cup {0},
          v \in 1..MaxChunk :
         /\ j # 0 => v = 1
         /\ \E a \in {[ctx |-> "dctx", contig |-> TRUE, abi |-> "LP64LE", mem |-> 0,
                        has_chunk_len |-> j = 0, chunk_len |-> v,
                        b |-> SubSeq(last.f.cells, last.pos + 1,
                                     IF j = 0 THEN Len(last.f.cells) ELSE last.pos + j)]} :
              \E o \in {_lz4framed_decompress_update(last.c, a)} :
                 last' = [last EXCEPT
                            !.op = "decompress_update", !.a = a, !.r = o.r,
                            !.pre = [dctx |-> last.c],
                            !.chunk_len = chunk_len_parsed(a),
                            !.c = o.c,
                            !.pos = @ + Len(a.b),
                            !.got = IF o.r.err = OK THEN @ \o Concat(o.r.list) ELSE @,
                            !.st = IF o.r.err # OK THEN "failed"
                                   ELSE IF o.r.num = 0 THEN "done" ELSE "open"]
    /\ UNCHANGED <<cctx, dctx, strm, feed>>
    /\ UNCHANGED mtvars

\* get_frame_info on that context, between two decompress_update calls.
DecInfo ==
    /\ last.op \in FeedOps \ {"get_frame_info"}
    /\ last.st \in {"open", "done"}
    /\ \E o \in {_lz4framed_get_frame_info(last.c, [ctx |-> "dctx", mem |-> 0])} :
         last' = [last EXCEPT
                    !.op = "get_frame_info", !.r = o.r, !.pre = [dctx |-> last.c],
                    !.c = o.c, !.a = <<>>, !.chunk_len = 0,
                    !.hinc = IF o.r.err # OK /\ last.st = "open" THEN last.pos ELSE @]
    /\ UNCHANGED <<cctx, dctx, strm, feed>>
    /\ UNCHANGED mtvars

\* The frame went through: the same context is to be given another frame.
DecAgain ==
    /\ last.op \in FeedOps
    /\ last.st = "done"
    /\ last.n = 0
    /\ last' = [op |-> "again", c |-> last.c, first |-> last.f.plain]
    /\ UNCHANGED <<cctx, dctx, strm, feed>>
    /\ UNCHANGED mtvars

NextDec ==
    \/ DecPick
    \/ DecCall
    \/ DecStep
    \/ DecReturn
    \/ DecFeed
    \/ DecUpdate
    \/ DecInfo
    \/ DecAgain

SpecDec == Init /\ [][NextDec]_vars

\* The call has come back from the loop.
Returned == last.op = "decompress" /\ last.passes > 0

\* C11: decompress returns a result only when the decoder's last call
\* reported hint 0; when the decoder wants more and nothing is left to read,
\* the call fails with "frame incomplete" and returns nothing; a frame that
\* lost its last cell (4 bytes) fails that way.
C11_FrameIncomplete ==
    /\ Returned =>
         /\ last.r.err = OK => last.nerr = OK /\ last.hint = 0
         /\ (last.nerr = OK /\ last.hint # 0 /\ last.s.input_remaining = 0) =>
               /\ last.r.err = E_Incomplete
               /\ last.r.ret = NULL
    /\ (/\ last.op = "decompress" /\ last.f.shape = "cut" /\ last.f.kind # "short"
        /\ decompress_check(last.a) = OK /\ last.a.mem = 0)
       => last.r.err = E_Incomplete /\ last.r.ret = NULL

C11_Witness ==
    /\ Returned
    /\ last.f.shape = "cut" /\ last.f.kind = "streamed"
    /\ last.r.err = E_Incomplete
    /\ Len(last.made) > 0
    /\ last.s.grows > 0

\* The loop is at the start of a pass.
LoopHead == last.op = "decompress_loop" /\ last.s.st = "loop"

\* The pass just made has doubled the buffer.
Grew == last.op = "decompress_loop" /\ last.s.grows = last.prev.grows + 1

\* C12: at the start of every pass of the loop the bytes written so far and
\* the bytes remaining add up to the capacity and the write offset is the
\* number of bytes written so far; a growth step makes the capacity twice
\* what it was and keeps what was written where it was; it is taken only
\* when the decoder's hint is not 0 and input is left.
C12_BufferGrowth ==
    /\ LoopHead =>
         /\ last.s.output_pos + last.s.output_remaining = last.s.output_len
         /\ last.s.output_pos = Len(last.made)
         /\ last.s.output.len = last.s.output_len
         /\ last.s.output_written = last.s.output_remaining
         /\ last.s.output.data = last.made
    /\ Grew =>
         /\ last.s.output_len = 2 * last.prev.output_len
         /\ last.s.output.len = 2 * last.prev.output.len
         /\ SubSeq(last.s.output.data, 1, last.prev.output_pos)
              = SubSeq(last.prev.output.data, 1, last.prev.output_pos)
         /\ last.s.output.data = last.made
         /\ last.nerr = OK /\ last.hint # 0
         /\ last.s.input_remaining # 0
    /\ (LoopHead /\ last.passes > 0) => Grew

C12_Witness ==
    /\ LoopHead /\ Grew
    /\ last.prev.grows > 0
    /\ last.prev.output_pos > 0
    /\ Len(last.made) > last.prev.output_pos

\* C13: whatever the buffer_size and however often the buffer has grown, the
\* bytes object decompress returns is as long as what the decoder produced
\* and holds, in order, what each decoder call produced: nothing dropped,
\* overwritten or written twice, and no byte left unwritten.
C13_GrowthCorrectness ==
    (Returned /\ last.r.err = OK) =>
        /\ last.r.ret.len = Len(last.made)
        /\ last.r.ret.data = last.made
        /\ Content(last.r.ret, JunkByte) = last.made
        /\ last.r.num = last.s.grows
        /\ last.f.kind \in {"sized", "streamed"} => last.made = last.f.plain

C13_Witness ==
    /\ Returned /\ last.r.err = OK
    /\ last.s.grows >= 2
    /\ last.a.buffer_size < Len(last.made)
    /\ last.passes >= 3

\* The call has reached the loop, with a frame whose header declares a
\* content size.
KnownLength == last.op \in {"decompress_loop", "decompress"} /\ "s" \in DOMAIN last
               /\ last.contentSize # 0

RECURSIVE Doubled(_, _)
Doubled(n, k) == IF k = 0 THEN n ELSE Doubled(2 * n, k - 1)

\* C14 as stated: with a content size declared, exactly that many bytes are
\* allocated and the loop never grows the buffer.
C14_KnownLengthNeverGrows ==
    KnownLength =>
        /\ decompress_start(last.a, LZ4F_getFrameInfo(LZ4F_dctx_new, last.a.b)).output.len
             = last.contentSize
        /\ last.s.grows = 0

\* C14, amended: with a content size declared, exactly that many bytes are
\* allocated, whatever buffer_size is; the loop does not grow the buffer as
\* long as the frame holds no more data than it declares, and grows it when
\* the frame holds more.
C14_KnownLengthFastPath ==
    KnownLength =>
        /\ decompress_start(last.a, LZ4F_getFrameInfo(LZ4F_dctx_new, last.a.b)).output.len
             = last.contentSize
        /\ last.passes = 0 => last.s.output.len = last.contentSize
        /\ last.s.st = "loop" => last.s.output_len = Doubled(last.contentSize, last.s.grows)
        /\ Len(last.f.plain) <= last.contentSize => last.s.grows = 0
        /\ (last.f.kind = "short" /\ last.passes > 0 /\ ~last.a.warn_err /\ last.a.mem = 0)
              => last.s.grows > 0

C14_Witness ==
    /\ KnownLength /\ Returned
    /\ last.r.err = OK
    /\ last.a.buffer_size # last.contentSize
    /\ last.s.grows = 0
    /\ last.r.ret.len = last.contentSize

\* The content-size-mismatch warning has been emitted during the call.
Mismatched == KnownLength /\ Count(last.s.ev, "warn") > 0

\* What a call may end in when the mismatch is no error.
OtherOutcomes == {OK, E_Incomplete, E_NoMem} \cup CodecErrors

\* C15 as stated: after the warning the call goes on with the grown buffer
\* and ends in success or in an error of another kind, whatever emitting
\* the warning came to.
C15_MismatchNeverFails ==
    (Mismatched /\ Returned) => last.r.err \in OtherOutcomes

\* C15, amended: a frame that declares its size and needs a larger buffer
\* makes decompress emit the warning, once per growth step and never for a
\* frame of unknown size; when emitting it raises no exception the call
\* goes on decoding into the grown buffer and ends in success or in an
\* error of another kind; when emitting it raises (warnings turned into
\* errors) the call fails with that exception and returns nothing.
C15_MismatchWarns ==
    /\ (last.op \in {"decompress_loop", "decompress"} /\ "s" \in DOMAIN last) =>
         /\ last.contentSize = 0 => Count(last.s.ev, "warn") = 0
         /\ (last.contentSize # 0 /\ last.s.st = "loop")
               => Count(last.s.ev, "warn") = last.s.grows
         /\ (last.contentSize # 0 /\ last.s.grows > 0)
               => Count(last.s.ev, "warn") >= last.s.grows
    /\ (Mismatched /\ Returned /\ PyErr_WarnEx(last.a) = 0) =>
         /\ last.r.err \in OtherOutcomes
         /\ last.r.err # E_NoMem =>
               /\ last.s.grows > 0
               /\ Count(last.s.ev, "LZ4F_decompress") = last.s.grows + 1
    /\ (Mismatched /\ Returned /\ PyErr_WarnEx(last.a) # 0) =>
         /\ last.r.err = E_Warn
         /\ last.r.ret = NULL
         /\ last.s.grows = 0

C15_Witness ==
    /\ Mismatched /\ Returned
    /\ PyErr_WarnEx(last.a) = 0
    /\ last.s.grows > 0
    /\ last.passes >= 2
    /\ last.r.err \in CodecErrors

(***************************************************************************)
(* Properties of the sequential specification                              *)
(***************************************************************************)
IsCall(ops) == last.op \in ops

\* The call went as far as it can go without an allocation failing.
NoFault == last.a.mem = 0

\* The preferences a begin with arguments a is to leave in the context.
PrefsOf(a) ==
    [contentSize |-> 0,
     blockMode |-> IF a.block_mode_linked = 0 THEN LZ4F_blockIndependent ELSE LZ4F_blockLinked,
     blockSizeID |-> a.block_size_id,
     blockChecksumFlag |-> IF a.block_checksum = 0 THEN 0 ELSE 1,
     contentChecksumFlag |-> IF a.checksum = 0 THEN 0 ELSE 1,
     compressionLevel |-> a.level,
     autoFlush |-> IF a.autoflush = 0 THEN 0 ELSE 1]

\* The compress call with the preferences of begin arguments a.
OneShot(a, b) ==
    [b |-> b, contig |-> TRUE, block_size_id |-> a.block_size_id,
     block_mode_linked |-> a.block_mode_linked, checksum |-> a.checksum,
     level |-> a.level, block_checksum |-> a.block_checksum, mem |-> 0]

\* What decompress(compress(b, prefs)) returns.
ThroughCompress(a, b) ==
    _lz4framed_decompress(
        DecompressArg(Content(_lz4framed_compress(OneShot(a, b)).ret, JunkCell), 1, "none"))

Untouched == cctx = last.pre.cctx /\ dctx = last.pre.dctx
NoNativeNoLock == Natives(last.r.ev) = 0 /\ Count(last.r.ev, "lock") = 0

\* C2: decompress of a frame that compress made from a non-empty buffer b
\* under valid preferences succeeds and returns exactly b, whatever positive
\* buffer_size it is given.
C2_RoundTrip ==
    (/\ IsCall({"decompress"}) /\ last.from = "compress" /\ last.shape = "whole"
     /\ last.a.contig /\ last.a.buffer_size > 0 /\ NoFault)
    => /\ last.r.err = OK
       /\ last.r.ret.len = Len(last.plain)
       /\ Content(last.r.ret, JunkByte) = last.plain

C2_Witness ==
    /\ IsCall({"decompress"}) /\ last.from = "compress" /\ last.shape = "whole"
    /\ last.r.err = OK /\ last.a.buffer_size = 1
    /\ Len(last.plain) = MaxLen
    /\ last.ca.checksum = 1 /\ last.ca.block_checksum = 1
    /\ last.ca.block_size_id = LZ4F_max1MB

\* C3: the outputs of compress_begin, of one compress_update per piece and of
\* compress_end, put together, are a frame that decompresses to the pieces
\* put together, which is what the frame compress makes of them under the
\* same preferences decompresses to; with autoFlush or without, and when
\* updates returned zero bytes.
C3_StreamingEquivalence ==
    (/\ IsCall({"decompress"}) /\ last.from = "stream"
     /\ last.a.contig /\ last.a.buffer_size > 0 /\ NoFault)
    => /\ last.r.err = OK
       /\ Content(last.r.ret, JunkByte) = last.plain
       /\ last.plain # <<>> =>
            /\ ThroughCompress(last.ca, last.plain).err = OK
            /\ ThroughCompress(last.ca, last.plain).ret = last.r.ret

C3_Witness ==
    /\ IsCall({"decompress"}) /\ last.from = "stream" /\ last.r.err = OK
    /\ last.pre.strm.zero
    /\ Len(last.plain) = MaxPlain
    /\ last.r.num > 0

\* C4: a compress_begin on a context whose frame is open does not succeed and
\* leaves the frame open; a compress_begin that succeeds found the context
\* idle, leaves it with an open frame and returns the frame header.
C4_BeginFromIdle ==
    IsCall({"compress_begin"}) =>
        /\ last.pre.cctx.ctx.cStage = 1 =>
              last.r.err # OK /\ last.r.ret = NULL /\ cctx.ctx.cStage = 1
        /\ last.r.err = OK =>
              /\ last.pre.cctx.ctx.cStage = 0
              /\ cctx.ctx.cStage = 1
              /\ Content(last.r.ret, JunkCell) = LZ4F_header(PrefsOf(last.a))

C4_Witness ==
    /\ IsCall({"compress_begin"})
    /\ last.pre.cctx.ctx.cStage = 1 /\ last.pre.strm.plain # <<>>
    /\ compress_begin_check(last.a) = OK /\ NoFault
    /\ last.r.err \in CodecErrors

\* C5: compress_update and compress_end on an idle context fail (with a codec
\* error unless an allocation failed first), return nothing and leave the
\* context idle; with a frame open, compress_update leaves it open and a
\* compress_end that succeeds leaves the context idle.
C5_UpdateEndInFrameOpen ==
    /\ (/\ IsCall({"compress_update"}) /\ compress_update_check(last.a) = OK
        /\ last.pre.cctx.ctx.cStage = 0)
       => /\ last.r.err # OK /\ last.r.ret = NULL /\ cctx.ctx.cStage = 0
          /\ NoFault => last.r.err \in CodecErrors
    /\ (/\ IsCall({"compress_end"}) /\ compress_end_check(last.a) = OK
        /\ last.pre.cctx.ctx.cStage = 0)
       => /\ last.r.err # OK /\ last.r.ret = NULL /\ cctx.ctx.cStage = 0
          /\ NoFault => last.r.err \in CodecErrors
    /\ (IsCall({"compress_update"}) /\ last.pre.cctx.ctx.cStage = 1)
       => cctx.ctx.cStage = 1
    /\ (IsCall({"compress_end"}) /\ last.pre.cctx.ctx.cStage = 1 /\ last.r.err = OK)
       => cctx.ctx.cStage = 0

C5_Witness ==
    /\ IsCall({"compress_end"})
    /\ last.pre.strm.st = "done" /\ last.pre.strm.plain # <<>>
    /\ last.r.err \in CodecErrors /\ cctx.ctx.cStage = 0

\* C6: a compress_begin with valid arguments on a context that has completed
\* a frame succeeds, and from then on, while the frame is open, the stored
\* preferences and those the codec works with are the ones of that begin.
C6_ContextReuse ==
    /\ (/\ IsCall({"compress_begin"}) /\ last.pre.strm.st = "done"
        /\ compress_begin_check(last.a) = OK /\ NoFault)
       => /\ last.r.err = OK
          /\ cctx.prefs = PrefsOf(last.a)
    /\ strm.st = "open" =>
          /\ cctx.prefs = PrefsOf(strm.a)
          /\ cctx.ctx.prefs = PrefsOf(strm.a)

C6_Witness ==
    /\ IsCall({"compress_begin"}) /\ last.pre.strm.st = "done" /\ last.r.err = OK
    /\ last.pre.strm.plain # <<>>
    /\ \A k \in DOMAIN prefs_defaults \ {"contentSize"} :
          cctx.prefs[k] # last.pre.cctx.prefs[k]

BadOption ==
    \/ /\ IsCall({"compress", "compress_begin"})
       /\ \/ ~_valid_lz4f_block_size_id(last.a.block_size_id)
          \/ last.a.level > LZ4_COMPRESSION_MAX
    \/ IsCall({"decompress"}) /\ last.a.buffer_size <= 0
    \/ IsCall({"get_block_size"}) /\ ~_valid_lz4f_block_size_id(last.a.id)

\* The call was given a usable buffer and a valid context.
UsableArgs ==
    /\ IsCall({"compress", "decompress"}) => last.a.contig
    /\ IsCall({"compress_begin"}) => last.a.ctx = "cctx"

RejectedUntouched ==
    /\ last.r.err \in InvalidOption
    /\ NoNativeNoLock
    /\ Untouched

\* C8 as stated: a configuration value outside its domain is turned down as
\* an invalid option before any native call and before the lock is taken,
\* and the context stays as it was.
C8_AnyBadOption == (BadOption /\ UsableArgs) => RejectedUntouched

\* C8, amended: the same for calls whose data is not empty; compress and
\* decompress given empty data fail with Lz4FramedNoDataError even when an
\* option is outside its domain as well, again without a native call.
C8_BadOptionNonEmpty ==
    /\ (/\ BadOption /\ UsableArgs
        /\ IsCall({"compress", "decompress"}) => last.a.b # <<>>)
       => RejectedUntouched
    /\ (/\ BadOption /\ UsableArgs
        /\ IsCall({"compress", "decompress"}) /\ last.a.b = <<>>)
       => last.r.err = E_NoData /\ NoNativeNoLock /\ Untouched

C8_Witness ==
    /\ IsCall({"compress_begin"})
    /\ ~_valid_lz4f_block_size_id(last.a.block_size_id)
    /\ last.r.err = E_BlockId
    /\ last.pre.cctx.ctx.cStage = 1 /\ last.pre.cctx.prefs # prefs_defaults
    /\ Untouched

\* C9: decompress_update given data and a chunk_len of 0 or below fails as
\* an invalid option, with no chunk allocated and no call of the decoder.
C9_NonPositiveChunkLen ==
    (/\ IsCall({"decompress_update"}) /\ last.a.ctx = "dctx"
     /\ last.a.contig /\ last.a.b # <<>>
     /\ last.a.has_chunk_len /\ last.a.chunk_len <= 0)
    => /\ last.r.err = E_ChunkLen
       /\ Count(last.r.ev, "alloc_chunk") = 0
       /\ Count(last.r.ev, "LZ4F_decompress") = 0

\* C10: in compress and compress_begin every level up to LZ4_COMPRESSION_MAX
\* passes the level check and the call goes on to the codec (unless an
\* allocation fails first); the level one above fails as an invalid option.
C10_LevelBoundary ==
    (/\ IsCall({"compress", "compress_begin"})
     /\ _valid_lz4f_block_size_id(last.a.block_size_id)
     /\ IsCall({"compress"}) => last.a.contig /\ last.a.b # <<>>
     /\ IsCall({"compress_begin"}) => last.a.ctx = "cctx")
    => /\ last.a.level <= LZ4_COMPRESSION_MAX =>
            /\ last.r.err \notin InvalidOption
            /\ NoFault => Natives(last.r.ev) > 0
       /\ last.a.level = LZ4_COMPRESSION_MAX + 1 =>
            /\ last.r.err = E_Level
            /\ Natives(last.r.ev) = 0

C10_Witness ==
    /\ IsCall({"compress"})
    /\ last.a.level = LZ4_COMPRESSION_MAX
    /\ last.r.err = OK
    /\ Count(last.r.ev, "LZ4F_compressFrame") = 1

\* A decompress_update call has returned its list.
UpdDone == last.op = "decompress_update" /\ last.r.err = OK

\* The locals of that call when its loop was left.
UpdEnd ==
    decompress_update_loop(last.a, last.chunk_len,
                           decompress_update_start(last.pre.dctx, last.a, last.chunk_len))

\* What the decoder makes of the call's input when the output has room for
\* all of it.
UpdWhole == LZ4F_decompress(last.pre.dctx.ctx, MaxOut + MaxPlain + 1, last.a.b)

\* C16: decompress_update returns chunks and then the hint: every chunk but
\* the last is chunk_len long, the last is 1..chunk_len long, none is empty
\* or appended twice, and together they are, in order, what the decoder
\* produced during the call; the loop ends exactly when the input is used
\* up or the decoder reports hint 0.
C16_ChunkSequence ==
    UpdDone =>
        LET list == last.r.list
            n == Len(list)
            e == UpdEnd
        IN  /\ \A i \in 1..n :
                  /\ list[i].len >= 1 /\ list[i].len <= last.chunk_len
                  /\ Len(list[i].data) = list[i].len
            /\ \A i \in 1..(n - 1) : list[i].len = last.chunk_len
            /\ Concat(list) = e.made
            /\ Count(last.r.ev, "append") = n + 1
            /\ last.r.num = e.input_size_hint
            /\ e.input_remaining = 0 \/ e.input_size_hint = 0
            /\ UpdWhole.err = OK =>
                  /\ e.made = SubSeq(UpdWhole.written, 1, Len(e.made))
                  /\ e.input_pos = UpdWhole.read
                  /\ last.r.num = UpdWhole.hint
                  /\ e.input_remaining # 0 => UpdWhole.hint = 0

C16_Witness ==
    /\ UpdDone
    /\ last.chunk_len = MaxChunk
    /\ Len(last.r.list) >= 3
    /\ last.r.list[Len(last.r.list)].len = 1
    /\ UpdEnd.input_remaining # 0

\* A get_frame_info call on the context that is being fed has returned.
InfoDone == last.op = "get_frame_info"

\* The number of cells of the frame's header, and what the header says.
HeaderLen(f) == HeaderSize(f.cells[2].v)

HeaderSays(f) ==
    LET flg == f.cells[2].v IN
    [length |-> IF (flg \div 8) % 2 = 1 THEN f.cells[4].v ELSE 0,
     block_size_id |-> f.cells[3].v,
     block_mode_linked |-> flg % 2 = LZ4F_blockLinked,
     checksum |-> (flg \div 4) % 2 = 1]

\* The header of the frame being fed is in, all of it.
HeaderFed == last.st = "open" /\ last.pos >= HeaderLen(last.f)

\* C17: get_frame_info fails with "frame header incomplete" as long as the
\* header of the current frame is not all in, and succeeds once
\* decompress_update has fed the rest of it, reporting the header's content
\* size, block size id, block mode and content checksum flag; either way it
\* hands the decoder no input and leaves the context as it was.
C17_HeaderIncomplete ==
    InfoDone =>
        /\ last.c = last.pre.dctx
        /\ Count(last.r.ev, "LZ4F_getFrameInfo") = 1
        /\ Count(last.r.ev, "LZ4F_decompress") = 0
        /\ ~HeaderFed =>
              /\ last.r.err = "ERROR_frameHeader_incomplete"
              /\ last.r.dict = dict_none
        /\ HeaderFed =>
              /\ last.r.err = OK
              /\ \A k \in DOMAIN HeaderSays(last.f) :
                    last.r.dict[k] = HeaderSays(last.f)[k]
              /\ last.f.kind = "sized" => last.r.dict.length = Len(last.f.plain)
              /\ last.f.kind = "streamed" => last.r.dict.length = 0

C17_Witness ==
    /\ InfoDone
    /\ last.r.err = OK
    /\ last.hinc > 0 /\ last.hinc < HeaderLen(last.f)
    /\ last.r.dict.length > 0
    /\ last.r.dict.checksum /\ ~last.r.dict.block_mode_linked

\* C18: a decompress_update that returns hint 0 leaves the context as a new
\* one is, with all of the frame's data given out; a second frame fed to it
\* afterwards, in one call or in several, is decoded as a new context
\* decodes it, whatever the first frame was.
C18_ContextLifeCycle ==
    /\ (last.op = "decompress_update" /\ last.r.err = OK /\ last.r.num = 0) =>
          /\ last.c = dctx_new
          /\ last.st = "done"
          /\ last.got = last.f.plain
    /\ last.op = "again" => last.c = dctx_new
    /\ (last.op \in FeedOps /\ last.n = 1) =>
          /\ last.st # "failed"
          /\ last.pos = 0 => last.c = dctx_new
          /\ last.got = SubSeq(last.f.plain, 1, Len(last.got))
          /\ last.pos = Len(last.f.cells) => last.st = "done"

C18_Witness ==
    /\ last.op = "decompress_update" /\ last.r.err = OK /\ last.r.num = 0
    /\ last.n = 1
    /\ last.got = <<1, 1, 1>>
    /\ last.first # last.got /\ Len(last.first) > 3
    /\ last.pre.dctx # dctx_new

(***************************************************************************)
(* Properties of the contexts' destruction (threaded specification)        *)
(***************************************************************************)
\* C19 as stated: destruction of a context waits for the context's lock, so
\* the statement that deletes the context's name comes to its end only
\* while the lock is free.
C19_DestroyBlocks ==
    [][\A c \in Ctxs : (caps[c].named /\ ~caps'[c].named) => lk[c] = 0]_vars

\* C19: the destructor takes no lock and runs when the last reference to
\* the capsule is gone, which every call in progress on the context holds:
\* the native handle and the lock are freed, once, only when no thread is in
\* a call on the context and the lock is free; as long as a thread is inside
\* a locked section nothing of the context has been freed, whether or not
\* the context's name has been deleted.
C19_FreedAfterLastCall ==
    \A c \in Ctxs :
        /\ caps[c].ev # <<>> =>
              /\ caps[c].ev = capsule_destructor(c)
              /\ ~caps[c].named /\ caps[c].refs = 0
              /\ lk[c] = 0 /\ hold[c] = "none"
              /\ \A t \in Threads : th[t].ctx # c
        /\ \A t \in Threads : InSection(t, c) => caps[c].ev = <<>> /\ caps[c].refs > 0
        /\ caps[c].refs = (IF caps[c].named THEN 1 ELSE 0)
                           + Cardinality({t \in Threads : th[t].ctx = c})

\* The name of a context was deleted while another thread held the
\* context's lock, and the context has been destroyed since.
C19_Witness ==
    \E c \in Ctxs : caps[c].late /\ caps[c].ev = capsule_destructor(c)

(***************************************************************************)
(* Properties of allocation and release (sequential specification)         *)
(***************************************************************************)
ContextFrees ==
    {"LZ4F_freeCompressionContext", "LZ4F_freeDecompressionContext",
     "PyThread_free_lock", "PyMem_Del"}

Frees(ev) == Cardinality({i \in 1..Len(ev) : ev[i] \in ContextFrees})

\* Every e2 of ev comes after an e1.
After(ev, e1, e2) ==
    \A i \in 1..Len(ev) : ev[i] = e2 => \E j \in 1..(i - 1) : ev[j] = e1

\* The temporary decoder of the latest call, a one-shot decompress, exists.
DecoderMade == decompress_check(last.a) = OK /\ last.a.mem # 1

\* C20: a creation that fails at a step has freed, once, the memory, the
\* lock and the native handle it had by then and nothing else, each after
\* its allocation; a creation that succeeds frees nothing, and the capsule's
\* destructor frees the three once; no call on a context frees anything of
\* it; one-shot decompress frees its decoder once, as its last step, when it
\* has made one and frees nothing when it has not.
C20_ReleasedOnce ==
    /\ last.op \in {"create_context", "destroy_context"} =>
          LET ev == last.r.ev \o last.freed
              mem == last.fail # 1
              lock == last.fail \notin {1, 2}
              ctx == last.fail \notin {1, 2, 3}
              gone == last.fail # 0 \/ last.op = "destroy_context"
          IN  /\ last.r.capsule <=> last.fail = 0
              /\ last.r.err = OK <=> last.r.capsule
              /\ Count(ev, "PyMem_Del") = (IF mem /\ gone THEN 1 ELSE 0)
              /\ Count(ev, "PyThread_free_lock") = (IF lock /\ gone THEN 1 ELSE 0)
              /\ Count(ev, FreeOf(last.c)) = (IF ctx /\ gone THEN 1 ELSE 0)
              /\ Frees(ev) = Count(ev, "PyMem_Del") + Count(ev, "PyThread_free_lock")
                                + Count(ev, FreeOf(last.c))
              /\ After(ev, "PyMem_New", "PyMem_Del")
              /\ After(ev, "PyThread_allocate_lock", "PyThread_free_lock")
              /\ After(ev, CreateOf(last.c), FreeOf(last.c))
              /\ last.op = "create_context" /\ last.r.capsule => Frees(ev) = 0
    /\ last.op = "decompress" =>
          /\ Count(last.r.ev, "LZ4F_freeDecompressionContext") = (IF DecoderMade THEN 1 ELSE 0)
          /\ Count(last.r.ev, "free_null") = (IF DecoderMade THEN 0 ELSE 1)
          /\ Frees(last.r.ev) = Count(last.r.ev, "LZ4F_freeDecompressionContext")
          /\ After(last.r.ev, "LZ4F_createDecompressionContext", "LZ4F_freeDecompressionContext")
          /\ last.r.ev[Len(last.r.ev)] \in {"LZ4F_freeDecompressionContext", "free_null"}
    /\ last.op \notin {"init", "create_context", "destroy_context", "decompress"} =>
          Frees(last.r.ev) = 0

\* A creation failed at the native creation, with the memory and the lock
\* allocated and no handle.
C20_Witness ==
    /\ last.op = "create_context"
    /\ last.fail = 3
    /\ Count(last.r.ev, "PyThread_free_lock") = 1
    /\ Count(last.r.ev, "free_null") = 1

(***************************************************************************)
(* Properties of the input views (sequential specification)                *)
(***************************************************************************)
\* C21: a call of compress, decompress, compress_update or decompress_update
\* that has obtained a view on its input has released it, once, when it
\* returns, whether it succeeds or fails.
C21_ViewReleasedOnce ==
    IsCall({"compress", "decompress", "compress_update", "decompress_update"})
    => /\ Count(last.r.ev, "view") = 1
       /\ Count(last.r.ev, "release") = 1

(***************************************************************************)
(* Properties of get_block_size (sequential specification)                 *)
(***************************************************************************)
\* C22: get_block_size gives 65536 for the default id and for 64KB, 262144
\* for 256KB, 1048576 for 1MB and 4194304 for 4MB; for every other id it
\* fails with "id invalid"; and the index computed for a valid id is one of
\* the table's four.
C22_BlockSizeTable ==
    (IsCall({"get_block_size"}) /\ NoFault) =>
        LET id == last.a.id IN
        /\ Len(blockSizes) = 4
        /\ id \in {LZ4F_default, LZ4F_max64KB} => last.r.err = OK /\ last.r.num = 65536
        /\ id = LZ4F_max256KB => last.r.err = OK /\ last.r.num = 262144
        /\ id = LZ4F_max1MB => last.r.err = OK /\ last.r.num = 1048576
        /\ id = LZ4F_max4MB => last.r.err = OK /\ last.r.num = 4194304
        /\ id \notin {LZ4F_default, LZ4F_max64KB, LZ4F_max256KB, LZ4F_max1MB, LZ4F_max4MB}
             => last.r.err = E_Id /\ last.r.ev = <<>>
        /\ last.r.err = OK => block_size_index(id) \in 0..3

C22_Witness ==
    /\ IsCall({"get_block_size"})
    /\ last.a.id = LZ4F_default
    /\ last.r.err = OK /\ last.r.num = 65536

(***************************************************************************)
(* Properties of the GIL and the locks (threaded specification)            *)
(***************************************************************************)
\* The thread is in the window of a native call on a context made without
\* the GIL: from Py_BEGIN_ALLOW_THREADS until Py_END_ALLOW_THREADS has the
\* GIL back.
InWindow(t) ==
    th[t].ctx \in Ctxs /\ th[t].pc \in {"in_native_nogil", "native_done"}

\* C23: while compress_update or decompress_update has given the GIL up
\* around a native call, its thread holds the lock of the context; any
\* other thread in a call on that context is before its locked section,
\* waiting for the lock at most, or past it, and none is in a native call
\* on the context.
C23_LockHeldWithoutGil ==
    \A t \in Threads :
        InWindow(t) =>
            /\ th[t].op \in {"compress_update", "decompress_update"}
            /\ gil # t
            /\ th[t].lock_acquired = 1
            /\ lk[th[t].ctx] = 1 /\ hold[th[t].ctx] = t
            /\ \A u \in Threads \ {t} :
                 th[u].ctx = th[t].ctx =>
                    /\ th[u].pc \in {"enter", "acquire", "after", "bail_out", "ret"}
                    /\ th[u].lock_acquired = 0
                    /\ th[u].pc = "acquire" => ~ENABLED Acquire(u)

\* A thread is in a native call without the GIL while the other, which has
\* been running in that window, waits for the lock of the same context.
C23_Witness ==
    \E t \in Threads, u \in Threads :
        /\ t # u
        /\ th[t].pc = "in_native_nogil"
        /\ th[t].op = "decompress_update"
        /\ th[u].ctx = th[t].ctx
        /\ th[u].op = "get_frame_info"
        /\ th[u].pc = "acquire"

\* C24: a step of a call on one context leaves the lock of every other
\* context as it is, and a thread at PyThread_acquire_lock goes on as soon
\* as the lock of its own context is free, whoever holds the other locks.
C24_NoCrossContention ==
    /\ [](\A t \in Threads :
            (th[t].pc = "acquire" /\ lk[th[t].ctx] = 0) => ENABLED Acquire(t))
    /\ [][\A c \in Ctxs :
            (lk'[c] # lk[c] \/ hold'[c] # hold[c])
            => \E t \in Threads : th'[t] # th[t] /\ th[t].ctx = c]_vars

\* Both threads are in a native call without the GIL, each with the lock of
\* its own context.
C24_Witness ==
    \E t \in Threads, u \in Threads :
        /\ th[t].ctx = "dctx" /\ th[t].pc = "in_native_nogil" /\ hold["dctx"] = t
        /\ th[u].ctx = "cctx" /\ th[u].pc = "in_native_nogil" /\ hold["cctx"] = u

\* Where a thread in a call is outside the locked section.
OutsidePcs == {"enter", "acquire", "after", "bail_out", "ret"}

\* C25: a call of any of the five functions holds its context's lock only
\* inside its locked section and has given it back when it returns, however
\* it ends; a lock is released only by the thread that holds it, in a call
\* that has acquired it and has not released it yet; calls that fail before
\* the context pointer is taken, before the section or after it release
\* nothing.
C25_LockReleased ==
    /\ [](/\ \A c \in Ctxs : lk[c] = 1 <=> hold[c] # "none"
          /\ \A c \in Ctxs, t \in Threads : hold[c] = t => InSection(t, c)
          /\ \A t \in Threads :
                /\ th[t].lock_acquired # 0 => th[t].ptr # 0 /\ hold[th[t].ctx] = t
                /\ th[t].pc \in OutsidePcs \cup {"out"} =>
                      /\ th[t].lock_acquired = 0
                      /\ \A c \in Ctxs : hold[c] # t)
    /\ [][\A c \in Ctxs :
            (lk[c] = 1 /\ lk'[c] = 0)
            => \E t \in Threads :
                  /\ hold[c] = t /\ th[t].ctx = c
                  /\ th[t].lock_acquired = 1 /\ th'[t].lock_acquired = 0
                  /\ th'[t].pc \in {"after", "ret"}]_vars

\* A compress_update whose output could not be resized after the section is
\* at bail while the other thread, which waited for the lock, has it.
C25_Witness ==
    \E t \in Threads, u \in Threads :
        /\ t # u
        /\ th[t].op = "compress_update" /\ th[t].pc = "bail_out" /\ th[t].ptr = 1
        /\ th[u].ctx = th[t].ctx /\ th[u].pc = "locked"
        /\ hold[th[t].ctx] = u

(***************************************************************************)
(* Properties of progress (threaded specification under fair scheduling)   *)
(***************************************************************************)
\* The thread waits for the GIL with the lock of its context in hand.
AwaitsGil(t) == th[t].pc \in {"locked", "native_done"} /\ gil # "none"

GoverningSize(t) ==
    IF th[t].op = "decompress_update" THEN th[t].chunk_written ELSE th[t].len

SizedOps == {"compress", "compress_update", "decompress", "decompress_update"}

\* C27: a native codec call runs without the GIL exactly when the governing
\* size is at least 8192 bytes, and with the GIL when it is smaller; the
\* native calls of compress_begin, compress_end and get_frame_info always
\* run with the GIL.
C27_GilReleasedBySize ==
    \A t \in Threads :
        /\ th[t].pc = "in_native_nogil" =>
              /\ gil # t
              /\ th[t].op \in SizedOps
              /\ GoverningSize(t) >= 8192
        /\ th[t].pc = "in_native" =>
              /\ gil = t
              /\ th[t].op \in SizedOps => GoverningSize(t) < 8192

C27_Witness ==
    \E t, u \in Threads :
        /\ th[t].pc = "in_native_nogil" /\ th[t].op = "compress"
        /\ th[t].len = 8192
        /\ th[u].pc = "in_native" /\ th[u].op = "decompress"
        /\ th[u].len = 8191

\* The input of the call that is left after the frame header.
AfterHeader == Len(last.a.b) - HeaderLen(last.f)

\* C28: when decompress enters its loop, the output buffer is exactly the
\* declared content size and the stable-destination option is set if the
\* header declares a nonzero content size; otherwise the buffer is the
\* larger of buffer_size and the input left after the header, and the
\* option is not set.  The option stays as it was set during the loop.
C28_InitialAllocation ==
    last.op = "decompress_loop" =>
        /\ last.contentSize # 0 =>
              /\ last.s.stableDst = 1
              /\ last.passes = 0 =>
                    last.s.output.len = last.contentSize
                    /\ last.s.output_len = last.contentSize
        /\ last.contentSize = 0 =>
              /\ last.s.stableDst = 0
              /\ last.passes = 0 =>
                    /\ last.s.output.len >= last.a.buffer_size
                    /\ last.s.output.len >= AfterHeader
                    /\ last.s.output.len \in {last.a.buffer_size, AfterHeader}
                    /\ last.s.output_len = last.s.output.len

\* decompress enters its loop on a frame of unknown size whose remaining
\* input is longer than buffer_size.
C28_Witness ==
    /\ last.op = "decompress_loop" /\ last.passes = 0
    /\ last.contentSize = 0
    /\ AfterHeader > last.a.buffer_size
    /\ last.s.output.len = AfterHeader
    /\ last.s.stableDst = 0

\* The content size the header of the frame in cells declares, 0 for none.
Declared(cells) == LZ4F_getFrameInfo(LZ4F_dctx_new, cells).info.contentSize

\* C29: a frame that compress returns declares the length of the input as
\* its content size; the preferences stored in the compression context have
\* content size 0 in every state, so the frame streamed through the context
\* declares none, and decompress decodes it without the stable-destination
\* option, from a buffer sized by buffer_size and the remaining input.
C29_DeclaredContentLength ==
    /\ (IsCall({"compress"}) /\ last.r.err = OK) =>
          /\ Declared(Content(last.r.ret, JunkCell)) = Len(last.a.b)
          /\ Len(last.a.b) > 0
    /\ cctx.prefs.contentSize = 0
    /\ strm.st \in {"open", "done"} => Declared(strm.out) = 0
    /\ (IsCall({"decompress"}) /\ last.from = "stream" /\ last.r.err = OK) =>
          LET s == decompress_start(last.a, LZ4F_getFrameInfo(LZ4F_dctx_new, last.a.b))
          IN  /\ s.stableDst = 0
              /\ s.output_len = MAX(last.a.buffer_size, s.input_remaining)

\* decompress has decoded a frame streamed through a context whose stored
\* preferences compress_begin had changed.
C29_Witness ==
    /\ IsCall({"decompress"}) /\ last.from = "stream" /\ last.r.err = OK
    /\ cctx.prefs # prefs_defaults
    /\ Declared(last.a.b) = 0
    /\ last.plain # <<>>

\* The functions other than compress_begin.
OtherCalls ==
    {"get_block_size", "compress", "decompress", "compress_update", "compress_end",
     "get_frame_info", "decompress_update", "create_context", "destroy_context"}

\* C30: compress_update, compress_end and every other function but
\* compress_begin leave the stored preferences as they were and never write
\* them; compress_begin writes them once, with the lock held, when its
\* arguments have passed the checks, and not at all otherwise; and
\* compress_update asks for an output buffer of the bound that the stored
\* preferences give for its input, those of the begin that opened the frame.
C30_PrefsOnlyInBegin ==
    /\ IsCall(OtherCalls) =>
          /\ cctx.prefs = last.pre.cctx.prefs
          /\ Count(last.r.ev, "prefs_w") = 0
    /\ IsCall({"compress_begin"}) =>
          IF compress_begin_check(last.a) = OK
          THEN /\ cctx.prefs = PrefsOf(last.a)
               /\ Count(last.r.ev, "prefs_w") = 1
               /\ Count(last.r.ev, "lock") = 1 /\ Count(last.r.ev, "unlock") = 1
               /\ After(last.r.ev, "lock", "prefs_w")
               /\ After(last.r.ev, "prefs_w", "unlock")
          ELSE /\ cctx.prefs = last.pre.cctx.prefs
               /\ Count(last.r.ev, "prefs_w") = 0
    /\ (IsCall({"compress_update"}) /\ compress_update_check(last.a) = OK) =>
          /\ last.r.output_len = LZ4F_compressBound(Len(last.a.b), last.pre.cctx.prefs)
          /\ last.pre.strm.st = "open" =>
                last.r.output_len
                   = LZ4F_compressBound(Len(last.a.b), PrefsOf(last.pre.strm.a))

\* compress_update has compressed data into an open frame whose preferences
\* give another bound than the defaults do.
C30_Witness ==
    /\ IsCall({"compress_update"}) /\ last.r.err = OK
    /\ last.pre.strm.st = "open"
    /\ cctx.prefs = last.pre.cctx.prefs
    /\ cctx.prefs # prefs_defaults
    /\ last.r.output_len # LZ4F_compressBound(Len(last.a.b), prefs_defaults)

(***************************************************************************)
(* The decode loops over an arbitrary decoder: the loops of decompress and *)
(* of decompress_update, with the decoder's replies chosen freely among    *)
(* those that make progress.  Buffers are their lengths only; memory is    *)
(* finite: no buffer grows beyond MemMax bytes, no list beyond ListMax     *)
(* items.                                                                  *)
(***************************************************************************)
MaxInput == 3
MemMax == 8
ListMax == 3

\* What a decoder may reply when given avail input bytes and room for cap
\* output bytes: an error, or the bytes read, the bytes written and a hint.
Replies(avail, cap) ==
    {[err |-> TRUE, read |-> 0, written |-> 0, hint |-> 1]}
    \cup {[err |-> FALSE, read |-> r, written |-> w, hint |-> h] :
            r \in 0..avail, w \in 0..cap, h \in 0..1}

\* A variant of DecoderReplies with the replies that make no progress.
DecoderReplies_idle(avail, cap) == Replies(avail, cap)

\* The replies of a decoder that, as long as it wants more, reads or writes
\* at least one byte in every call.
DecoderReplies(avail, cap) ==
    {o \in Replies(avail, cap) : (~o.err /\ o.hint # 0) => o.read + o.written >= 1}

\* The locals of decompress when its loop is entered with rem input bytes
\* left after the header.
loop_start(rem, buffer_size, contentSize, warn_err) ==
    LET output_len == decompress_initial_len(contentSize, buffer_size, rem) IN
    [op |-> "loop", fn |-> "decompress", st |-> "loop", err |-> OK,
     input_remaining |-> rem, input_read |-> rem,
     output_len |-> output_len, output_remaining |-> output_len,
     output_written |-> output_len, contentSize |-> contentSize,
     warn_err |-> warn_err, made |-> 0, passes |-> 0, grows |-> 0]

\* One pass of the while (1) loop of decompress after the decoder replied o;
\* mem tells whether the resize of a buffer that fits into memory succeeds.
loop_pass(s, o, mem) ==
    LET out_rem == s.output_remaining - o.written
        in_rem == s.input_remaining - o.read
        s1 == [s EXCEPT !.passes = @ + 1, !.made = @ + o.written,
                        !.output_remaining = out_rem, !.output_written = out_rem]
        s2 == [s1 EXCEPT !.input_remaining = in_rem, !.input_read = in_rem]
    IN  IF o.err THEN [s EXCEPT !.st = "bail", !.err = "ERROR_GENERIC", !.passes = @ + 1]
        ELSE IF o.hint = 0
        THEN [s1 EXCEPT !.st = "break",
                        !.output_len = decompress_final_len(s.output_len, out_rem)]
        ELSE IF in_rem # 0
        THEN IF s.contentSize # 0 /\ s.warn_err
             THEN [s2 EXCEPT !.st = "bail", !.err = E_Warn]
             ELSE IF 2 * s.output_len > MemMax \/ ~mem
             THEN [s2 EXCEPT !.st = "bail", !.err = E_NoMem]
             ELSE [s2 EXCEPT !.output_remaining = out_rem + s.output_len,
                             !.output_written = out_rem + s.output_len,
                             !.output_len = 2 * s.output_len,
                             !.grows = @ + 1]
        ELSE decompress_exhausted(s2)

\* The locals of decompress_update when its loop is entered.
update_start(len, chunk_len) ==
    [op |-> "loop", fn |-> "decompress_update", st |-> "loop", err |-> OK,
     input_remaining |-> len, input_read |-> len, input_size_hint |-> 1,
     chunk_len |-> chunk_len, chunk_remaining |-> chunk_len,
     chunk_written |-> chunk_len, items |-> 0, made |-> 0, passes |-> 0]

\* The room the decoder is given in a pass of decompress_update: a full
\* chunk is replaced by a new one first.
update_room(s) == IF s.chunk_remaining = 0 THEN s.chunk_len ELSE s.chunk_written

\* One pass of the while loop of decompress_update after the decoder
\* replied o; mem tells whether the append and the allocation of a pass
\* that replaces the chunk succeed.
update_pass(s, o, mem) ==
    LET full == s.chunk_remaining = 0
        room == update_room(s)
        s1 == [s EXCEPT !.passes = @ + 1,
                        !.items = IF full THEN @ + 1 ELSE @]
    IN  IF full /\ (s.items >= ListMax \/ ~mem)
        THEN [s EXCEPT !.st = "bail", !.err = E_NoMem, !.passes = @ + 1]
        ELSE IF o.err THEN [s1 EXCEPT !.st = "bail", !.err = "ERROR_GENERIC"]
        ELSE [s1 EXCEPT !.chunk_written = room - o.written,
                        !.chunk_remaining = room - o.written,
                        !.input_read = s.input_remaining - o.read,
                        !.input_remaining = s.input_remaining - o.read,
                        !.input_size_hint = o.hint,
                        !.made = @ + o.written]

\* Whether the loop of the call with locals s goes on.
loop_continues(s) ==
    /\ s.st = "loop"
    /\ s.fn = "decompress_update" =>
          decompress_update_continue(s.input_remaining, s.input_size_hint)

\* What the call comes to after its loop: the last appends of
\* decompress_update and the resize of decompress may fail for lack of
\* memory.
loop_result(s, mem) ==
    LET kept == s.fn = "decompress_update"
                /\ final_chunk_kept(s.chunk_remaining, s.chunk_len)
        short == ~mem \/ (s.fn = "decompress_update"
                          /\ s.items + (IF kept THEN 1 ELSE 0) + 1 > ListMax)
    IN  [s EXCEPT !.op = "returned",
                  !.err = IF s.st = "bail" THEN s.err
                          ELSE IF short THEN E_NoMem ELSE OK]

\* decompress or decompress_update gets as far as its loop.
LoopCall ==
    /\ Fresh
    /\ \/ \E rem \in 0..MaxInput, buffer_size \in 1..2, contentSize \in 0..2,
             warn_err \in BOOLEAN :
            last' = loop_start(rem, buffer_size, contentSize, warn_err)
       \/ \E len \in 1..MaxInput, chunk_len \in 1..2 :
            last' = update_start(len, chunk_len)
    /\ UNCHANGED <<cctx, dctx, strm, feed>>
    /\ UNCHANGED mtvars

\* One pass of the loop of decompress.
LoopPass ==
    /\ last.op = "loop" /\ last.fn = "decompress"
    /\ loop_continues(last)
    /\ \E o \in DecoderReplies(last.input_read, last.output_written), mem \in BOOLEAN :
         last' = loop_pass(last, o, mem)
    /\ UNCHANGED <<cctx, dctx, strm, feed>>
    /\ UNCHANGED mtvars

\* One pass of the loop of decompress_update.
LoopUpdatePass ==
    /\ last.op = "loop" /\ last.fn = "decompress_update"
    /\ loop_continues(last)
    /\ \E o \in DecoderReplies(last.input_read, update_room(last)), mem \in BOOLEAN :
         last' = update_pass(last, o, mem)
    /\ UNCHANGED <<cctx, dctx, strm, feed>>
    /\ UNCHANGED mtvars

\* The loop has been left and the call returns.
LoopReturn ==
    /\ last.op = "loop"
    /\ ~loop_continues(last)
    /\ \E mem \in BOOLEAN : last' = loop_result(last, mem)
    /\ UNCHANGED <<cctx, dctx, strm, feed>>
    /\ UNCHANGED mtvars

NextLoop ==
    \/ LoopCall
    \/ LoopPass
    \/ LoopUpdatePass
    \/ LoopReturn

\* The code of a call runs on: a statement that can be executed is.
SpecLoop == Init /\ [][NextLoop]_vars /\ WF_vars(NextLoop)

\* A pass of a decode loop that is followed by another one.
PassAgain ==
    /\ last.op = "loop" /\ loop_continues(last)
    /\ last'.op = "loop" /\ loop_continues(last')

\* What the loop of decompress may end in, as claimed.
StatedOutcomes == {OK, E_Incomplete, E_NoMem} \cup CodecErrors

\* C31 as stated: with a decoder that reads or writes at least one byte in
\* every call that leaves it wanting more, each decode loop ends, no pass
\* is followed by another without input read or output written, and the
\* call of decompress ends in success, "frame incomplete", a codec error
\* or MemoryError.
C31_LoopsEndAsStated ==
    /\ (last.op = "loop") ~> (last.op = "returned")
    /\ [][PassAgain => (last'.input_remaining < last.input_remaining
                        \/ last'.made > last.made)]_vars
    /\ [](last.op = "returned" /\ last.fn = "decompress" =>
            last.err \in StatedOutcomes)

\* C31, amended: with such a decoder each decode loop ends and no pass is
\* followed by another without input read or output written;
\* decompress_update ends in success, a codec error or MemoryError, and
\* decompress in one of these, in "frame incomplete", or in the RuntimeWarning
\* of a content-size mismatch raised as an exception.
C31_LoopsTerminate ==
    /\ (last.op = "loop") ~> (last.op = "returned")
    /\ [][PassAgain => (last'.input_remaining < last.input_remaining
                        \/ last'.made > last.made)]_vars
    /\ [](last.op = "returned" =>
            IF last.fn = "decompress"
            THEN last.err \in StatedOutcomes \cup {E_Warn}
            ELSE last.err \in {OK, E_NoMem} \cup CodecErrors)

\* decompress_update has returned after passes that read nothing and
\* passes that replaced a full chunk, and left input unread.
C31_Witness ==
    /\ last.op = "returned" /\ last.fn = "decompress_update" /\ last.err = OK
    /\ last.passes > MaxInput
    /\ last.items >= 2
    /\ last.input_remaining > 0

\* The input of the decompress call that its decoder has not read when the
\* latest pass is over.
OneShotUnread ==
    Len(last.a.b) - last.prev.input_pos - decompress_native(last.a, last.prev).read

\* The frame in hand is a valid frame followed by one more cell.
Trailed == last.f.shape = "more" /\ last.f.kind \in {"sized", "streamed"}

\* The arguments of the latest call without the last n cells of the input.
Without(n) == [last.a EXCEPT !.b = SubSeq(@, 1, Len(@) - n)]

\* C32: when the decoder reports hint 0 and has not read all of the input,
\* decompress returns what the decoder produced and decompress_update
\* returns its chunks and hint 0, and the context is left as a new one:
\* result and context are what the call gives without the unread bytes.  A
\* valid frame followed by more input is decoded that way.
C32_TrailingInputIgnored ==
    /\ (/\ Returned /\ last.nerr = OK /\ last.hint = 0
        /\ OneShotUnread > 0 /\ last.a.mem = 0) =>
          /\ last.r.err = OK
          /\ Content(last.r.ret, JunkByte) = last.made
          /\ _lz4framed_decompress(Without(OneShotUnread)).err = OK
          /\ _lz4framed_decompress(Without(OneShotUnread)).ret = last.r.ret
    /\ (/\ Returned /\ Trailed /\ last.a.mem = 0) =>
          /\ last.r.err = OK
          /\ Content(last.r.ret, JunkByte) = last.f.plain
          /\ OneShotUnread > 0
    /\ (UpdDone /\ last.r.num = 0 /\ UpdEnd.input_remaining > 0) =>
          LET o == _lz4framed_decompress_update(last.pre.dctx,
                                                Without(UpdEnd.input_remaining))
          IN  /\ o.r.err = OK
              /\ o.r.list = last.r.list
              /\ o.r.num = 0
              /\ o.c = last.c
              /\ last.c = dctx_new
    /\ (/\ last.op = "decompress_update" /\ Trailed
        /\ last.pos = Len(last.f.cells)) =>
          /\ last.r.err = OK
          /\ last.r.num = 0
          /\ last.got = last.f.plain
          /\ UpdEnd.input_remaining > 0

\* decompress_update has ended a frame that earlier calls had begun and has
\* left input unread.
C32_Witness ==
    /\ UpdDone /\ last.r.num = 0
    /\ UpdEnd.input_remaining > 0
    /\ last.pre.dctx # dctx_new
    /\ Len(last.r.list) >= 2
    /\ last.got = last.f.plain

\* compress_end has been called on a context whose frame is open and has
\* been given no data.
EndOfEmpty ==
    /\ IsCall({"compress_end"}) /\ compress_end_check(last.a) = OK
    /\ last.pre.strm.st = "open" /\ last.pre.strm.plain = <<>>

\* What ends a frame that holds no data: the end mark and, with content
\* checksums, the checksum of nothing.
Trailer(prefs) ==
    <<Cell("bh", 0)>>
    \o (IF prefs.contentChecksumFlag = 1 THEN <<Cell("cc", 0)>> ELSE <<>>)

====
